---------------------------- MODULE Spec2Model ----------------------------
(***************************************************************************)
(* A model of catp (src/tools/catp): the pattern matcher, the repository   *)
(* discoverer and the file collector.                                      *)
(*                                                                         *)
(* Text is modelled character by character: a string is a sequence of      *)
(* one-character strings, so "a/**" is <<"a", "/", "*", "*">>.  A relative  *)
(* pathlib.Path is the sequence of its components (Path.parts); Path(".")  *)
(* is the empty sequence.  An absolute path is the sequence of its parts   *)
(* with the anchor "/" as the first part, as in Path.parts.                *)
(***************************************************************************)
EXTENDS Integers, Sequences, FiniteSets, TLC

VARIABLES
    pc,                \* where the run is: "off", "main", "walk", "found"
    fs,                \* the directory tree below the scan root
    argv,              \* the command line: a sequence of <<flag, pattern>>
    depth_arg,         \* the command line's --depth
    only_patterns,     \* find_git_repo_roots: only_patterns (a list)
    exclude_patterns,  \* find_git_repo_roots: exclude_patterns (a list)
    max_depth,         \* find_git_repo_roots: max_depth
    queue,             \* find_git_repo_roots: queue of <<directory, depth>>
    head,              \* find_git_repo_roots: index of the next entry (0-based)
    visited_dirs,      \* find_git_repo_roots: visited_dirs
    repo_roots_found,  \* find_git_repo_roots: repo_roots_found
    repo_roots,        \* main: the list find_git_repo_roots returned
    c_pc,              \* collect: "off", "call", "filter", "returned"
    c_args,            \* collect: its arguments
    c_lister,          \* what git_files_in_repo returns for each RepoRoot
    c_disk,            \* the files on disk: absolute path -> [is_file, st_size]
    all_git_files,     \* collect: all_git_files, a list of <<p_abs, p_display>>
    c_next,            \* collect: index of the next candidate (0-based)
    kept_files,        \* collect: kept_files, a dict in insertion order
    skipped_large,     \* collect: skipped_large
    c_result,          \* collect: the pair of lists it returned
    r_pc,              \* run: where main is
    r_cmd,             \* run: the parsed command line
    r_fs,              \* run: the tree below the current directory
    r_lister,          \* run: what git_files_in_repo returns for each RepoRoot
    r_disk,            \* run: the files on disk when collect runs
    r_roots,           \* run: repo_roots
    r_files,           \* run: files_to_dump and skipped_large
    artifact,          \* run: the blocks written to out_file, in order
    r_next,            \* run: index of the next file dump_contents writes (0-based)
    r_reads,           \* run: the files the renderer has read, each with how the read went
    r_log,             \* run: the stages entered, in order
    r_status,          \* run: the exit status of the process
    r_parse,           \* run: how parse_args ended
    r_clip,            \* run: how the clipboard copy ended
    m_path,            \* matcher harness: the Path argument
    m_patterns,        \* matcher harness: the pattern set argument
    m_fn,              \* matcher harness: which function has been applied
    m_out,             \* matcher harness: what it returned
    h_fn,              \* helper harness: which function has been applied
    h_in,              \* helper harness: its argument
    h_out,             \* helper harness: what it returned
    k_env,             \* clipboard: the platform, the session and the tools installed
    k_pc,              \* clipboard: the strategy copy_text_to_clipboard is at
    k_ran,             \* clipboard: the strategies tried so far, each with how it went
    k_result           \* clipboard: what the call returned

walkVars == <<pc, fs, argv, depth_arg, only_patterns, exclude_patterns, max_depth,
              queue, head, visited_dirs, repo_roots_found, repo_roots>>
collectVars == <<c_pc, c_args, c_lister, c_disk, all_git_files, c_next,
                 kept_files, skipped_large, c_result>>
matchVars == <<m_path, m_patterns, m_fn, m_out>>
runVars == <<r_pc, r_cmd, r_fs, r_lister, r_disk, r_roots, r_files, artifact,
             r_next, r_reads, r_log, r_status, r_parse, r_clip>>
helperVars == <<h_fn, h_in, h_out>>
clipVars == <<k_env, k_pc, k_ran, k_result>>
vars == <<walkVars, collectVars, matchVars, runVars, helperVars, clipVars>>

-----------------------------------------------------------------------------
(* Bounds of the model *)

MaxStrLen == 3    \* longest X of a pattern X/** and longest ext of *.ext
MaxParts == 2     \* most components of a path given to the matcher harness
MaxDirs == 2      \* most directories below the scan root
MaxRepos == 2     \* most directories that hold repository metadata
MaxDepthArg == 2  \* largest finite --depth
MaxListed == 2    \* most paths the tracked-file lister yields for one RepoRoot
MaxCells == 2     \* most cells of a notebook
MaxContentLen == 3  \* most characters of a file content

-----------------------------------------------------------------------------
(* Strings *)

\* Code points of the characters the model uses (Python compares str by code point).
Ord(c) ==
    CASE c = "*" -> 42
      [] c = "." -> 46
      [] c = "/" -> 47
      [] c = "?" -> 63
      [] c = "_" -> 95
      [] c = "a" -> 97
      [] c = "b" -> 98
      [] c = "e" -> 101
      [] c = "g" -> 103
      [] c = "i" -> 105
      [] c = "l" -> 108
      [] c = "n" -> 110
      [] c = "o" -> 111
      [] c = "p" -> 112
      [] c = "r" -> 114
      [] c = "s" -> 115
      [] c = "t" -> 116
      [] c = "x" -> 120
      [] c = "y" -> 121
      [] c = "z" -> 122

SLASH == <<"/">>
DOT == <<".">>

RECURSIVE StrLess(_, _)
\* str.__lt__: lexicographic by code point, a proper prefix is smaller.
StrLess(s, t) ==
    IF t = <<>> THEN FALSE
    ELSE IF s = <<>> THEN TRUE
    ELSE IF Head(s) # Head(t) THEN Ord(Head(s)) < Ord(Head(t))
    ELSE StrLess(Tail(s), Tail(t))

\* str.startswith / str.endswith
StartsWith(s, prefix) ==
    Len(prefix) <= Len(s) /\ SubSeq(s, 1, Len(prefix)) = prefix

EndsWith(s, suffix) ==
    Len(suffix) <= Len(s) /\ SubSeq(s, Len(s) - Len(suffix) + 1, Len(s)) = suffix

\* `sub in s` for strings
Contains(s, sub) ==
    \E i \in 1..(Len(s) - Len(sub) + 1) : \A j \in 1..Len(sub) : s[i + j - 1] = sub[j]

RECURSIVE SplitOn(_, _, _)
\* str.split(sep) for a one-character sep; cur is the piece being read.
SplitOn(s, sep, cur) ==
    IF s = <<>> THEN <<cur>>
    ELSE IF Head(s) = sep THEN <<cur>> \o SplitOn(Tail(s), sep, <<>>)
    ELSE SplitOn(Tail(s), sep, Append(cur, Head(s)))

RECURSIVE Join(_)
\* "/".join(parts)
Join(parts) ==
    IF parts = <<>> THEN <<>>
    ELSE IF Len(parts) = 1 THEN parts[1]
    ELSE parts[1] \o SLASH \o Join(Tail(parts))

RECURSIVE SelectParts(_)
\* pathlib's parse_parts drops empty components and "." components.
SelectParts(pieces) ==
    IF pieces = <<>> THEN <<>>
    ELSE IF Head(pieces) = <<>> \/ Head(pieces) = DOT THEN SelectParts(Tail(pieces))
    ELSE <<Head(pieces)>> \o SelectParts(Tail(pieces))

\* The parts of PurePosixPath(s) below its root.
ParseParts(s) == SelectParts(SplitOn(s, "/", <<>>))

\* PurePath.as_posix(): "." for the empty path; the anchor "/" of an absolute
\* path is followed by no separator.
as_posix(path) ==
    IF path = <<>> THEN DOT
    ELSE IF path[1] = SLASH THEN SLASH \o Join(Tail(path))
    ELSE Join(path)

-----------------------------------------------------------------------------
(* Configuration.  src/tools/catp/config.py is not among the sources; the   *)
(* lists of the same names in src/bin/cat_project.py are used.              *)

DEFAULT_SIZE_KB == 400

GLOB_INCLUDE ==
    { <<"*", ".", "g", "o">>,  \* *.go
      <<"g", "o", ".", "m", "o", "d">>,  \* go.mod
      <<"g", "o", ".", "s", "u", "m">>,  \* go.sum
      <<"G", "o", "p", "k", "g", ".", "t", "o", "m", "l">>,  \* Gopkg.toml
      <<"G", "o", "p", "k", "g", ".", "l", "o", "c", "k">>,  \* Gopkg.lock
      <<"M", "a", "k", "e", "f", "i", "l", "e">>,  \* Makefile
      <<"*", ".", "t", "m", "p", "l">>,  \* *.tmpl
      <<"*", ".", "g", "o", "h", "t", "m", "l">>,  \* *.gohtml
      <<"*", ".", "p", "r", "o", "t", "o">>,  \* *.proto
      <<"*", ".", "s", "w", "a", "g", "g", "e", "r", ".", "j", "s", "o", "n">>,  \* *.swagger.json
      <<"*", ".", "o", "p", "e", "n", "a", "p", "i", ".", "y", "a", "m", "l">>,  \* *.openapi.yaml
      <<"*", ".", "p", "y">>,  \* *.py
      <<"p", "y", "p", "r", "o", "j", "e", "c", "t", ".", "t", "o", "m", "l">>,  \* pyproject.toml
      <<"s", "e", "t", "u", "p", ".", "c", "f", "g">>,  \* setup.cfg
      <<"s", "e", "t", "u", "p", ".", "p", "y">>,  \* setup.py
      <<"p", "o", "e", "t", "r", "y", ".", "l", "o", "c", "k">>,  \* poetry.lock
      <<"r", "e", "q", "u", "i", "r", "e", "m", "e", "n", "t", "s", "*", ".", "t", "x", "t">>,  \* requirements*.txt
      <<"t", "o", "x", ".", "i", "n", "i">>,  \* tox.ini
      <<"m", "i", "g", "r", "a", "t", "i", "o", "n", "s", "/", "*", "*", "/", "*", ".", "p", "y">>,  \* migrations/**/*.py
      <<"*", ".", "c", "s", "s">>,  \* *.css
      <<"*", ".", "s", "c", "s", "s">>,  \* *.scss
      <<"*", ".", "s", "a", "s", "s">>,  \* *.sass
      <<"*", ".", "j", "s">>,  \* *.js
      <<"*", ".", "j", "s", "x">>,  \* *.jsx
      <<"*", ".", "t", "s">>,  \* *.ts
      <<"*", ".", "t", "s", "x">>,  \* *.tsx
      <<"*", ".", "v", "u", "e">>,  \* *.vue
      <<"*", ".", "h", "c", "l">>,  \* *.hcl
      <<"p", "a", "c", "k", "a", "g", "e", ".", "j", "s", "o", "n">>,  \* package.json
      <<"*", ".", "y", "m", "l">>,  \* *.yml
      <<"*", ".", "y", "a", "m", "l">>,  \* *.yaml
      <<"p", "n", "p", "m", "-", "l", "o", "c", "k", ".", "y", "a", "m", "l">>,  \* pnpm-lock.yaml
      <<"y", "a", "r", "n", ".", "l", "o", "c", "k">>,  \* yarn.lock
      <<"t", "s", "c", "o", "n", "f", "i", "g", "*", ".", "j", "s", "o", "n">>,  \* tsconfig*.json
      <<"v", "i", "t", "e", ".", "c", "o", "n", "f", "i", "g", ".", "*">>,  \* vite.config.*
      <<"n", "u", "x", "t", ".", "c", "o", "n", "f", "i", "g", ".", "*">>,  \* nuxt.config.*
      <<".", "e", "s", "l", "i", "n", "t", "r", "c", "*">>,  \* .eslintrc*
      <<".", "p", "r", "e", "t", "t", "i", "e", "r", "r", "c", "*">>,  \* .prettierrc*
      <<".", "b", "a", "b", "e", "l", "r", "c", "*">>,  \* .babelrc*
      <<"*", ".", "c", "s">>,  \* *.cs
      <<"*", ".", "c", "s", "p", "r", "o", "j">>,  \* *.csproj
      <<"*", ".", "s", "l", "n">>,  \* *.sln
      <<"*", ".", "c", "s", "h", "t", "m", "l">>,  \* *.cshtml
      <<"*", ".", "r", "a", "z", "o", "r">>,  \* *.razor
      <<"*", ".", "f", "l", "o", "w">>,  \* *.flow
      <<"a", "p", "p", "s", "e", "t", "t", "i", "n", "g", "s", "*", ".", "j", "s", "o", "n">>,  \* appsettings*.json
      <<"*", ".", "c", "o", "n", "f", "i", "g">>,  \* *.config
      <<"*", "*", "/", "l", "a", "u", "n", "c", "h", "S", "e", "t", "t", "i", "n", "g", "s", ".", "j", "s", "o", "n">>,  \* **/launchSettings.json
      <<".", "d", "o", "c", "k", "e", "r", "i", "g", "n", "o", "r", "e">>,  \* .dockerignore
      <<"*", "D", "o", "c", "k", "e", "r", "f", "i", "l", "e", "*">>,  \* *Dockerfile*
      <<"d", "o", "c", "k", "e", "r", "-", "c", "o", "m", "p", "o", "s", "e", "*", ".", "y", "m", "l">>,  \* docker-compose*.yml
      <<"P", "r", "o", "c", "f", "i", "l", "e">>,  \* Procfile
      <<".", "p", "r", "e", "-", "c", "o", "m", "m", "i", "t", "-", "c", "o", "n", "f", "i", "g", ".", "y", "a", "m", "l">>,  \* .pre-commit-config.yaml
      <<".", "g", "i", "t", "h", "u", "b", "/", "*", "*", "/", "*", ".", "y", "m", "l">>,  \* .github/**/*.yml
      <<".", "g", "i", "t", "l", "a", "b", "-", "c", "i", ".", "y", "m", "l">>,  \* .gitlab-ci.yml
      <<"a", "z", "u", "r", "e", "-", "p", "i", "p", "e", "l", "i", "n", "e", "s", ".", "y", "m", "l">>,  \* azure-pipelines.yml
      <<"R", "E", "A", "D", "M", "E", "*", ".", "m", "d">>,  \* README*.md
      <<"C", "H", "A", "N", "G", "E", "L", "O", "G", "*", ".", "m", "d">>,  \* CHANGELOG*.md
      <<"C", "O", "N", "T", "R", "I", "B", "U", "T", "I", "N", "G", "*", ".", "m", "d">>,  \* CONTRIBUTING*.md
      <<"d", "o", "c", "s", "/", "*", "*", "/", "*", ".", "{", "m", "d", ",", "m", "d", "x", "}">>,  \* docs/**/*.{md,mdx}
      <<"t", "e", "s", "t", "s", "/", "*", "*", "/", "*", ".", "{", "p", "y", ",", "j", "s", ",", "t", "s", ",", "c", "s", "}">>,  \* tests/**/*.{py,js,ts,cs}
      <<"*", ".", "i", "p", "y", "n", "b">>,  \* *.ipynb
      <<"s", "c", "h", "e", "m", "a", "/", "*", "*", "/", "*", ".", "j", "s", "o", "n">> }  \* schema/**/*.json

EXCLUDE_FILE_PATTERNS ==
    { <<"*", ".", "m", "i", "n", ".", "*">>,  \* *.min.*
      <<"*", ".", "p", "n", "g">>,  \* *.png
      <<"*", ".", "j", "p", "g">>,  \* *.jpg
      <<"*", ".", "j", "p", "e", "g">>,  \* *.jpeg
      <<"*", ".", "g", "i", "f">>,  \* *.gif
      <<"*", ".", "i", "c", "o">>,  \* *.ico
      <<"*", ".", "s", "v", "g">>,  \* *.svg
      <<"*", ".", "w", "o", "f", "f">>,  \* *.woff
      <<"*", ".", "w", "o", "f", "f", "2">>,  \* *.woff2
      <<"*", ".", "t", "t", "f">>,  \* *.ttf
      <<"*", ".", "o", "t", "f">>,  \* *.otf
      <<"*", ".", "e", "o", "t">>,  \* *.eot
      <<"*", ".", "p", "d", "f">>,  \* *.pdf
      <<"*", ".", "d", "o", "c">>,  \* *.doc
      <<"*", ".", "d", "o", "c", "x">>,  \* *.docx
      <<"*", ".", "x", "l", "s">>,  \* *.xls
      <<"*", ".", "x", "l", "s", "x">>,  \* *.xlsx
      <<"*", ".", "z", "i", "p">>,  \* *.zip
      <<"*", ".", "t", "a", "r", "*">>,  \* *.tar*
      <<"*", ".", "g", "z">>,  \* *.gz
      <<"*", ".", "b", "z", "2">>,  \* *.bz2
      <<"*", ".", "r", "a", "r">>,  \* *.rar
      <<"*", ".", "7", "z">>,  \* *.7z
      <<"*", ".", "n", "u", "p", "k", "g">>,  \* *.nupkg
      <<"*", ".", "s", "n", "u", "p", "k", "g">>,  \* *.snupkg
      <<"*", ".", "d", "l", "l">>,  \* *.dll
      <<"*", ".", "p", "d", "b">>,  \* *.pdb
      <<"*", ".", "e", "x", "e">>,  \* *.exe
      <<"*", ".", "s", "o">>,  \* *.so
      <<"*", ".", "d", "y", "l", "i", "b">>,  \* *.dylib
      <<"*", ".", "a">>,  \* *.a
      <<"*", ".", "o">>,  \* *.o
      <<"*", "l", "o", "c", "k", ".", "j", "s", "o", "n">>,  \* *lock.json
      <<"p", "n", "p", "m", "-", "l", "o", "c", "k", ".", "y", "a", "m", "l">>,  \* pnpm-lock.yaml
      <<"p", "r", "o", "j", "e", "c", "t", ".", "a", "s", "s", "e", "t", "s", ".", "j", "s", "o", "n">> }  \* project.assets.json

-----------------------------------------------------------------------------
(* The tracked files of the model *)

\* The tracked files of the model: a/b, a.b/x, x.go, a.gz and bin/a below the
\* scan root; the repository a, when it is a RepoRoot, tracks b.
FileAB == << <<"a">>, <<"b">> >>
FileABX == << <<"a", ".", "b">>, <<"x">> >>
FileGo == << <<"x", ".", "g", "o">> >>
FileGz == << <<"a", ".", "g", "z">> >>
FileBin == << <<"b", "i", "n">>, <<"a">> >>
Files == {FileAB, FileABX, FileGo, FileGz, FileBin}

\* The tracked files of the run: x.go, n.ipynb and a/b.
FileIpynb == << <<"n", ".", "i", "p", "y", "n", "b">> >>
RunFiles == {FileGo, FileIpynb, FileAB}

\* A repository outside the scan root, which a symbolic link of the run's tree
\* leads to, and the file ab it tracks (absolute paths).
OutsideDir == << <<"/">>, <<"x">> >>
FileOutside == OutsideDir \o << <<"a", "b">> >>

-----------------------------------------------------------------------------
(* Pattern Matcher *)

RECURSIVE fnmatch_from(_, _, _, _)
\* The match of name from its character i on against pat from its character j on.
fnmatch_from(name, i, pat, j) ==
    IF j > Len(pat) THEN i > Len(name)
    ELSE IF pat[j] = "*"
        THEN fnmatch_from(name, i, pat, j + 1)
             \/ (i <= Len(name) /\ fnmatch_from(name, i + 1, pat, j))
    ELSE IF pat[j] = "?"
        THEN i <= Len(name) /\ fnmatch_from(name, i + 1, pat, j + 1)
    ELSE i <= Len(name) /\ name[i] = pat[j] /\ fnmatch_from(name, i + 1, pat, j + 1)

\* fnmatch.fnmatch on POSIX (normcase is the identity): "*" matches any run of
\* characters, "/" included, "?" one character, anything else itself.
\* Bracket expressions are outside the alphabet of the model.
fnmatch(name, pat) == fnmatch_from(name, 1, pat, 1)

\* PurePath.match (Python 3.11) for a relative path: the pattern's parts are
\* matched against the path's last parts, each with fnmatch; a rooted pattern
\* never matches a relative path.  (An empty pattern raises ValueError; the
\* pattern inputs of the model all have a part.)
PathMatch(path, pat) ==
    LET pat_parts == ParseParts(pat)
        n == Len(pat_parts)
        k == Len(path)
    IN  /\ pat_parts # <<>>
        /\ ~StartsWith(pat, SLASH)
        /\ n <= k
        /\ \A i \in 1..n : fnmatch(path[k - n + i], pat_parts[i])

matches_path_last_component_only(path, patterns) ==
    \E p \in patterns :
        IF Contains(p, SLASH) \/ Contains(p, <<"*", "*">>)
        THEN PathMatch(path, p) \/ fnmatch(as_posix(path), p)
        ELSE path # <<>> /\ fnmatch(path[Len(path)], p)

\* The test matches_path makes of one pattern.
match_pattern(path, p) ==
    IF Contains(p, SLASH) \/ Contains(p, <<"*", "*">>)
    THEN PathMatch(path, p) \/ fnmatch(as_posix(path), p)
    ELSE \E i \in 1..Len(path) : fnmatch(path[i], p)

\* match_pattern depends on the path and the pattern alone: its results for
\* the tracked files of the model and the built-in patterns are computed once.
CachedPaths == Files \cup RunFiles \cup {FileOutside}
CachedPatterns == GLOB_INCLUDE \cup EXCLUDE_FILE_PATTERNS
MatchCache == [path \in CachedPaths |-> {p \in CachedPatterns : match_pattern(path, p)}]

matches_path(path, patterns) ==
    IF path \in CachedPaths
    THEN \E p \in patterns :
             IF p \in CachedPatterns THEN p \in MatchCache[path] ELSE match_pattern(path, p)
    ELSE \E p \in patterns : match_pattern(path, p)

should_exclude_subtree_unbounded_prefix(rel_path, excl_patterns) ==
    LET path_str == as_posix(rel_path) IN
    \E p \in excl_patterns :
        \/ /\ EndsWith(p, <<"/", "*", "*">>)
           /\ LET prefix == SubSeq(p, 1, Len(p) - 3)
              IN  path_str = prefix \/ StartsWith(path_str, prefix)
        \/ fnmatch(path_str, p)
        \/ fnmatch(path_str \o SLASH, p)

should_exclude_subtree(rel_path, excl_patterns) ==
    LET path_str == as_posix(rel_path) IN
    \E p \in excl_patterns :
        \/ /\ EndsWith(p, <<"/", "*", "*">>)
           /\ LET prefix == SubSeq(p, 1, Len(p) - 3)
              IN  path_str = prefix \/ StartsWith(path_str, prefix \o SLASH)
        \/ fnmatch(path_str, p)
        \/ fnmatch(path_str \o SLASH, p)

-----------------------------------------------------------------------------
(* Inputs of the matcher harness *)

RECURSIVE StringsOver(_, _)
\* All strings over alphabet of length at most n.
StringsOver(alphabet, n) ==
    IF n = 0 THEN {<<>>}
    ELSE LET shorter == StringsOver(alphabet, n - 1)
         IN  shorter \cup {Append(s, c) : s \in shorter, c \in alphabet}

RECURSIVE PathsOver(_, _)
\* All relative paths of at most n components drawn from names.
PathsOver(names, n) ==
    IF n = 0 THEN {<<>>}
    ELSE LET shorter == PathsOver(names, n - 1)
         IN  shorter \cup {Append(p, c) : p \in shorter, c \in names}

\* Component names of the harness: a, ab, a.b, .b
MatchNames == {<<"a">>, <<"a", "b">>, <<"a", ".", "b">>, <<".", "b">>}

MatchPaths == PathsOver(MatchNames, MaxParts)

\* X of a subtree pattern X/**: any string, glob characters included.
SubtreeRoots == StringsOver({"a", "b", "/", ".", "*"}, MaxStrLen)

\* ext of a bare extension pattern *.ext: no separator, no glob character.
Extensions == StringsOver({"a", "b", "."}, MaxStrLen)

SubtreePattern(X) == X \o <<"/", "*", "*">>
ExtensionPattern(ext) == <<"*", ".">> \o ext

MatchPatterns ==
    {SubtreePattern(X) : X \in SubtreeRoots}
        \cup {ExtensionPattern(e) : e \in Extensions}

MatchInit ==
    /\ m_path \in MatchPaths
    /\ m_patterns \in {{p} : p \in MatchPatterns}
    /\ m_fn = "none"
    /\ m_out = FALSE

MatchIdle ==
    /\ m_path = <<>>
    /\ m_patterns = {}
    /\ m_fn = "off"
    /\ m_out = FALSE

Call_should_exclude_subtree ==
    /\ m_fn = "none"
    /\ m_fn' = "should_exclude_subtree"
    /\ m_out' = should_exclude_subtree(m_path, m_patterns)
    /\ UNCHANGED <<m_path, m_patterns, walkVars, collectVars, runVars, helperVars, clipVars>>

Call_matches_path ==
    /\ m_fn = "none"
    /\ m_fn' = "matches_path"
    /\ m_out' = matches_path(m_path, m_patterns)
    /\ UNCHANGED <<m_path, m_patterns, walkVars, collectVars, runVars, helperVars, clipVars>>

MatchNext == Call_should_exclude_subtree \/ Call_matches_path

-----------------------------------------------------------------------------
(* Lists *)

Range(list) == {list[i] : i \in 1..Len(list)}

RECURSIVE Perms(_)
\* Every order in which the elements of a finite set can be listed.
Perms(S) ==
    IF S = {} THEN {<<>>}
    ELSE UNION {{<<x>> \o rest : rest \in Perms(S \ {x})} : x \in S}

RECURSIVE PartsLess(_, _)
\* PurePath.__lt__ (Python 3.11): the lists of parts are compared, part by part
\* as strings; a proper prefix is smaller.
PartsLess(p, q) ==
    IF q = <<>> THEN FALSE
    ELSE IF p = <<>> THEN TRUE
    ELSE IF Head(p) # Head(q) THEN StrLess(Head(p), Head(q))
    ELSE PartsLess(Tail(p), Tail(q))

RECURSIVE InsertPath(_, _)
InsertPath(x, list) ==
    IF list = <<>> THEN <<x>>
    ELSE IF PartsLess(x, Head(list)) THEN <<x>> \o list
    ELSE <<Head(list)>> \o InsertPath(x, Tail(list))

RECURSIVE sorted_paths(_)
unsorted_paths(list) == list

\* sorted() of a list of Paths.
sorted_paths(list) ==
    IF list = <<>> THEN <<>>
    ELSE InsertPath(Head(list), sorted_paths(Tail(list)))

-----------------------------------------------------------------------------
(* The directory tree *)

\* Optional[set]: None, or a set.  float: a whole number, or float("inf").
None == [is_none |-> TRUE, members |-> {}]
Some(S) == [is_none |-> FALSE, members |-> S]
Truthy(opt) == ~opt.is_none /\ opt.members # {}
Infinity == [finite |-> FALSE, value |-> 0]
Number(n) == [finite |-> TRUE, value |-> n]

\* The directories of the model's trees are named a and ab; a symbolic link is
\* named l; repository metadata is the directory .git.
DirNames == {<<"a">>, <<"a", "b">>}
LinkName == <<"l">>
DotGit == <<".", "g", "i", "t">>

GLOB_EXCLUDE_DIRS ==
    { <<".", "g", "i", "t">>,
      <<"n", "o", "d", "e", "_", "m", "o", "d", "u", "l", "e", "s">>,
      <<"d", "i", "s", "t">>,
      <<"b", "u", "i", "l", "d">>,
      <<".", "v", "e", "n", "v">>,
      <<"_", "_", "p", "y", "c", "a", "c", "h", "e", "_", "_">>,
      <<"b", "i", "n">>,
      <<"o", "b", "j">>,
      <<".", "v", "s">>,
      <<".", "v", "s", "c", "o", "d", "e">>,
      <<"v", "e", "n", "d", "o", "r">> }

\* The scan root, /r: cli.main passes Path.cwd().resolve().
start_path == << <<"/">>, <<"r">> >>

Abs(rel) == start_path \o rel
Parent(p) == SubSeq(p, 1, Len(p) - 1)
Name(p) == p[Len(p)]

RECURSIVE TreesUpTo(_)
\* The sets of at most n directories below the scan root, each with its parent.
TreesUpTo(n) ==
    IF n = 0 THEN {{}}
    ELSE LET smaller == TreesUpTo(n - 1)
         IN  smaller \cup UNION {{T \cup {Append(d, name)} :
                                    d \in T \cup {<<>>}, name \in DirNames} :
                                 T \in smaller}

\* A tree: its directories (paths relative to the scan root), the directories
\* that hold .git (the scan root is <<>>), and at most one symbolic link, in the
\* scan root, to a directory of the tree.
FileSystems ==
    UNION {{[dirs |-> T, git |-> G, links |-> L] :
                G \in {H \in SUBSET (T \cup {<<>>}) : Cardinality(H) <= MaxRepos},
                L \in {{}} \cup {{[at |-> <<LinkName>>, to |-> t]} : t \in T \cup {<<>>}}} :
           T \in TreesUpTo(MaxDirs)}

IsUnder(p, base) == StartsWith(p, base)
Below(p, base) == SubSeq(p, Len(base) + 1, Len(p))

\* (d / ".git").is_dir()
HasGit(f, d) ==
    \/ IsUnder(d, start_path) /\ Below(d, start_path) \in f.git
    \/ d \in f.git

\* d.iterdir() as a set: the subdirectories, the links and .git.
iterdir(f, d) ==
    {Append(d, name) : name \in {n \in DirNames :
        IsUnder(d, start_path) /\ Append(Below(d, start_path), n) \in f.dirs}}
    \cup {Abs(l.at) : l \in {k \in f.links : Parent(Abs(k.at)) = d}}
    \cup (IF HasGit(f, d) THEN {Append(d, DotGit)} ELSE {})

\* Path.is_dir() follows links; every entry of the model's trees is a directory.
is_dir(f, p) ==
    \/ p = start_path
    \/ IsUnder(p, start_path) /\ Below(p, start_path) \in f.dirs
    \/ \E l \in f.links : Abs(l.at) = p
    \/ Len(p) > 1 /\ Name(p) = DotGit /\ HasGit(f, Parent(p))

\* Path.resolve(): a link resolves to its target, which is a path below the
\* scan root or an absolute path.
resolve(f, p) ==
    IF \E l \in f.links : Abs(l.at) = p
    THEN LET target == (CHOOSE l \in f.links : Abs(l.at) = p).to
         IN  IF target # <<>> /\ target[1] = SLASH THEN target ELSE Abs(target)
    ELSE p

-----------------------------------------------------------------------------
(* Command line: parse_args *)

OnlyFlag == "--only"
ExcludeFlag == "--exclude"

\* Patterns of the model's command lines.
OnlyPats == { <<"a">>, <<"a", "b">> }
ExcludePats == { <<"a", "/", "*", "*">>, <<"a", "b">> }

RECURSIVE SortedStrings(_)
SortedStrings(S) ==
    IF S = {} THEN <<>>
    ELSE LET least == CHOOSE x \in S : \A y \in S \ {x} : StrLess(x, y)
         IN  <<least>> \o SortedStrings(S \ {least})

FlagsOf(flag, pats) ==
    [i \in 1..Len(pats) |-> <<flag, <<pats[i]>> >>]

\* One flag per pattern: the --only flags, then the --exclude flags.
CommandLines ==
    {FlagsOf(OnlyFlag, SortedStrings(O)) \o FlagsOf(ExcludeFlag, SortedStrings(E)) :
        O \in SUBSET OnlyPats, E \in SUBSET ExcludePats}

action_store(dest, values) == values

\* argparse action="extend": the values of every occurrence are appended.
action_extend(dest, values) == dest \o values

RECURSIVE parse_flag(_, _, _)
\* The list argparse builds for one flag (default=[]) from the command line.
parse_flag(args, flag, dest) ==
    IF args = <<>> THEN dest
    ELSE parse_flag(Tail(args), flag,
                    IF Head(args)[1] = flag
                    THEN action_extend(dest, Head(args)[2])
                    ELSE dest)

-----------------------------------------------------------------------------
(* Repository Discoverer: find_git_repo_roots *)

only_set_of(patterns) == IF patterns # <<>> THEN Some(Range(patterns)) ELSE None
exclude_set_of(patterns) == IF patterns # <<>> THEN Range(patterns) ELSE {}

\* The depth test of the walk with <= for <.
DepthAtMost(depth, max) == ~max.finite \/ depth <= max.value

\* depth < max_depth, max_depth being a number or float("inf")
DepthBelow(depth, max) == ~max.finite \/ depth < max.value

repo_skipped_root_too(rel_path, only_set, exclude_set) ==
    \/ rel_path # <<>> /\ matches_path(rel_path, exclude_set)
    \/ Truthy(only_set) /\ ~matches_path(rel_path, only_set.members)

repo_skipped_only_overrides(rel_path, only_set, exclude_set) ==
    /\ rel_path # <<>>
    /\ IF Truthy(only_set)
       THEN ~matches_path(rel_path, only_set.members)
       ELSE matches_path(rel_path, exclude_set)

\* The repository-level filters: TRUE when the walk skips (continue) a
\* directory that holds repository metadata.
repo_skipped(rel_path, only_set, exclude_set) ==
    /\ rel_path # <<>>
    /\ \/ matches_path(rel_path, exclude_set)
       \/ Truthy(only_set) /\ ~matches_path(rel_path, only_set.members)

RECURSIVE scan_children_forgets_visited(_, _, _, _, _)
\* The for loop over the children without visited_dirs.add.
scan_children_forgets_visited(f, children, depth, exclude_set, st) ==
    IF children = <<>> THEN st
    ELSE LET child == Head(children)
             child_rel == IF IsUnder(child, start_path)
                          THEN Below(child, start_path)
                          ELSE <<Name(child)>>
             enqueue == /\ is_dir(f, child)
                        /\ resolve(f, child) \notin st.visited
                        /\ Name(child) \notin GLOB_EXCLUDE_DIRS
                        /\ ~should_exclude_subtree(child_rel, exclude_set)
         IN  scan_children_forgets_visited(f, Tail(children), depth, exclude_set,
                 IF enqueue
                 THEN [visited |-> st.visited,
                       queue |-> Append(st.queue, <<resolve(f, child), depth + 1>>)]
                 ELSE st)

RECURSIVE scan_children(_, _, _, _, _)
\* The for loop over the sorted children of a directory: st is
\* [visited |-> visited_dirs, queue |-> queue] while the loop runs.
scan_children(f, children, depth, exclude_set, st) ==
    IF children = <<>> THEN st
    ELSE LET child == Head(children)
             child_rel == IF IsUnder(child, start_path)
                          THEN Below(child, start_path)
                          ELSE <<Name(child)>>
             enqueue == /\ is_dir(f, child)
                        /\ resolve(f, child) \notin st.visited
                        /\ Name(child) \notin GLOB_EXCLUDE_DIRS
                        /\ ~should_exclude_subtree(child_rel, exclude_set)
         IN  scan_children(f, Tail(children), depth, exclude_set,
                 IF enqueue
                 THEN [visited |-> st.visited \cup {resolve(f, child)},
                       queue |-> Append(st.queue, <<resolve(f, child), depth + 1>>)]
                 ELSE st)

WalkInit ==
    /\ pc = "main"
    /\ fs \in FileSystems
    /\ argv \in CommandLines
    /\ depth_arg \in -1..MaxDepthArg
    /\ only_patterns = <<>>
    /\ exclude_patterns = <<>>
    /\ max_depth = Number(0)
    /\ queue = <<>>
    /\ head = 0
    /\ visited_dirs = {}
    /\ repo_roots_found = {}
    /\ repo_roots = <<>>

EmptyFS == [dirs |-> {}, git |-> {}, links |-> {}]

WalkIdle ==
    /\ pc = "off"
    /\ fs = EmptyFS
    /\ argv = <<>>
    /\ depth_arg = 0
    /\ only_patterns = <<>>
    /\ exclude_patterns = <<>>
    /\ max_depth = Number(0)
    /\ queue = <<>>
    /\ head = 0
    /\ visited_dirs = {}
    /\ repo_roots_found = {}
    /\ repo_roots = <<>>

\* main up to the call of find_git_repo_roots, and the call's first lines.
Main_Discover ==
    /\ pc = "main"
    /\ pc' = "walk"
    /\ only_patterns' = parse_flag(argv, OnlyFlag, <<>>)
    /\ exclude_patterns' = parse_flag(argv, ExcludeFlag, <<>>)
    /\ max_depth' = IF depth_arg = -1 THEN Infinity ELSE Number(depth_arg)
    /\ repo_roots_found' = {}
    /\ queue' = << <<start_path, 0>> >>
    /\ visited_dirs' = {start_path}
    /\ head' = 0
    /\ UNCHANGED <<fs, argv, depth_arg, repo_roots, matchVars, collectVars, runVars, helperVars, clipVars>>

\* One iteration of the while loop, on w = [queue, head, visited, found];
\* children is sorted(current_dir.iterdir()).
walk_iteration(f, max, only_list, exclude_list, w, children) ==
    LET current_dir == w.queue[w.head + 1][1]
        depth == w.queue[w.head + 1][2]
        rel_path == IF IsUnder(current_dir, start_path)
                    THEN Below(current_dir, start_path)
                    ELSE <<>>
        only_set == only_set_of(only_list)
        exclude_set == exclude_set_of(exclude_list)
        is_repo == HasGit(f, current_dir)
        skipped == is_repo /\ repo_skipped(rel_path, only_set, exclude_set)
        found == IF is_repo /\ ~skipped
                 THEN w.found \cup {current_dir}
                 ELSE w.found
        st == IF ~skipped /\ DepthBelow(depth, max)
              THEN scan_children(f, children, depth, exclude_set,
                                 [visited |-> w.visited, queue |-> w.queue])
              ELSE [visited |-> w.visited, queue |-> w.queue]
    IN  [queue |-> st.queue, head |-> w.head + 1, visited |-> st.visited,
         found |-> found]

\* The return without the fallback for the scan root.
walk_without_fallback(f, found) == found

\* After the loop: the fallback for the scan root.
walk_fallback(f, found) ==
    IF found = {} /\ HasGit(f, start_path) THEN {start_path} ELSE found

\* What iterdir() yields, in some order, for the directory the loop is at.
Listings(f, w) ==
    IF w.head < Len(w.queue) THEN Perms(iterdir(f, w.queue[w.head + 1][1])) ELSE {<<>>}

\* sorted(current_dir.iterdir()), for every order iterdir() can yield.
SortedListings(f, w) == {sorted_paths(listing) : listing \in Listings(f, w)}

RECURSIVE walk_loop(_, _, _, _, _)
walk_loop(f, max, only_list, exclude_list, w) ==
    IF w.head < Len(w.queue)
    THEN walk_loop(f, max, only_list, exclude_list,
             walk_iteration(f, max, only_list, exclude_list, w,
                 sorted_paths(CHOOSE listing \in Listings(f, w) : TRUE)))
    ELSE w

\* find_git_repo_roots as a function of its arguments, for one order of
\* enumeration.
find_git_repo_roots(f, max, only_list, exclude_list) ==
    LET w == walk_loop(f, max, only_list, exclude_list,
                 [queue |-> << <<start_path, 0>> >>, head |-> 0,
                  visited |-> {start_path}, found |-> {}])
        found == walk_fallback(f, w.found)
    IN  sorted_paths(CHOOSE listing \in Perms(found) : TRUE)

WalkIteration ==
    /\ pc = "walk"
    /\ head < Len(queue)
    /\ LET w == [queue |-> queue, head |-> head, visited |-> visited_dirs,
                 found |-> repo_roots_found]
       IN  \E children \in SortedListings(fs, w) :
             LET n == walk_iteration(fs, max_depth, only_patterns,
                                     exclude_patterns, w, children)
             IN  /\ queue' = n.queue
                 /\ head' = n.head
                 /\ visited_dirs' = n.visited
                 /\ repo_roots_found' = n.found
    /\ UNCHANGED <<pc, fs, argv, depth_arg, only_patterns, exclude_patterns,
                   max_depth, repo_roots, matchVars, collectVars, runVars, helperVars,
                   clipVars>>

\* The return: the fallback, then sorted(list(repo_roots_found)); a set is
\* listed in no particular order.
WalkReturn ==
    /\ pc = "walk"
    /\ head = Len(queue)
    /\ LET found == walk_fallback(fs, repo_roots_found)
       IN  /\ repo_roots_found' = found
           /\ \E listing \in Perms(found) : repo_roots' = sorted_paths(listing)
    /\ pc' = "found"
    /\ UNCHANGED <<fs, argv, depth_arg, only_patterns, exclude_patterns,
                   max_depth, queue, head, visited_dirs, matchVars, collectVars, runVars,
                   helperVars, clipVars>>

WalkNext == Main_Discover \/ WalkIteration \/ WalkReturn

-----------------------------------------------------------------------------
(* File Collector: collect *)

within_size_below_ceiling_only(disk, path, kb) ==
    disk[path].is_file /\ disk[path].st_size < kb * 1024

\* within_size: path.is_file() and path.stat().st_size <= kb * 1024
within_size(disk, path, kb) ==
    disk[path].is_file /\ disk[path].st_size <= kb * 1024

\* The keys of the dict kept_files, a list of <<key, value>> in insertion order.
Keys(dict) == {dict[i][1] : i \in 1..Len(dict)}

kept_put_unconditionally(dict, p_display, p_abs) ==
    Append(dict, <<p_display, p_abs>>)

\* if p_display not in kept_files: kept_files[p_display] = p_abs
kept_put(dict, p_display, p_abs) ==
    IF p_display \in Keys(dict) THEN dict ELSE Append(dict, <<p_display, p_abs>>)

ItemLess_by_posix_string(x, y) ==
    IF x[1] # y[1] THEN StrLess(as_posix(x[1]), as_posix(y[1]))
    ELSE StrLess(as_posix(x[2]), as_posix(y[2]))

\* Tuple comparison of (Path, Path) items: the first Paths, then the second.
ItemLess(x, y) ==
    IF x[1] # y[1] THEN PartsLess(x[1], y[1]) ELSE PartsLess(x[2], y[2])

\* Tuple comparison of (Path, int) entries.
EntryLess(x, y) ==
    IF x[1] # y[1] THEN PartsLess(x[1], y[1]) ELSE x[2] < y[2]

RECURSIVE InsertItem(_, _)
InsertItem(x, list) ==
    IF list = <<>> THEN <<x>>
    ELSE IF ItemLess(x, Head(list)) THEN <<x>> \o list
    ELSE <<Head(list)>> \o InsertItem(x, Tail(list))

RECURSIVE sorted_items(_)
unsorted_items(list) == list

\* sorted(kept_files.items())
sorted_items(list) ==
    IF list = <<>> THEN <<>>
    ELSE InsertItem(Head(list), sorted_items(Tail(list)))

RECURSIVE InsertEntry(_, _)
InsertEntry(x, list) ==
    IF list = <<>> THEN <<x>>
    ELSE IF EntryLess(x, Head(list)) THEN <<x>> \o list
    ELSE <<Head(list)>> \o InsertEntry(x, Tail(list))

RECURSIVE sorted_entries(_)
\* sorted(skipped_large)
sorted_entries(list) ==
    IF list = <<>> THEN <<>>
    ELSE InsertEntry(Head(list), sorted_entries(Tail(list)))

active_exclude_patterns_allow_last(allow_list, exclude_list) ==
    (EXCLUDE_FILE_PATTERNS \cup Range(exclude_list)) \ Range(allow_list)

\* active_exclude_patterns: the built-in set, less allow, plus exclude.
active_exclude_patterns(allow_list, exclude_list) ==
    (EXCLUDE_FILE_PATTERNS \ Range(allow_list)) \cup Range(exclude_list)

\* include_patterns: the only patterns if any, else the built-in list.
include_patterns(only_list) ==
    IF only_list # <<>> THEN Range(only_list) ELSE GLOB_INCLUDE

RECURSIVE pool_repo(_, _, _)
\* The inner loop of the pooling: one RepoRoot's tracked files.
pool_repo(repo_root, listed, project_root) ==
    IF listed = <<>> THEN <<>>
    ELSE LET p_abs == repo_root \o Head(listed)
             p_display == IF IsUnder(p_abs, project_root)
                          THEN Below(p_abs, project_root)
                          ELSE p_abs
         IN  << <<p_abs, p_display>> >> \o pool_repo(repo_root, Tail(listed), project_root)

RECURSIVE pool(_, _, _)
\* all_git_files: the candidates of every RepoRoot, in RepoRoot order.
pool(roots, lister, project_root) ==
    IF roots = <<>> THEN <<>>
    ELSE pool_repo(Head(roots), lister[Head(roots)], project_root)
             \o pool(Tail(roots), lister, project_root)

passes_filters_only_overrides_exclude(disk, args, p_abs, p_display) ==
    /\ disk[p_abs].is_file
    /\ ~\E i \in 1..Len(p_display) : p_display[i] \in GLOB_EXCLUDE_DIRS
    /\ \/ args.only # <<>>
       \/ ~matches_path(p_display, active_exclude_patterns(args.allow, args.exclude))
    /\ (args.paths # <<>> => \E i \in 1..Len(args.paths) : IsUnder(p_abs, args.paths[i]))
    /\ matches_path(p_display, include_patterns(args.only))

\* The filters of the second loop before the size gate: TRUE when the
\* candidate goes on to the size gate.
passes_filters(disk, args, p_abs, p_display) ==
    /\ disk[p_abs].is_file
    /\ ~\E i \in 1..Len(p_display) : p_display[i] \in GLOB_EXCLUDE_DIRS
    /\ ~matches_path(p_display, active_exclude_patterns(args.allow, args.exclude))
    /\ (args.paths # <<>> => \E i \in 1..Len(args.paths) : IsUnder(p_abs, args.paths[i]))
    /\ matches_path(p_display, include_patterns(args.only))

filter_step_also_keeps_skipped(disk, args, p_abs, p_display, st) ==
    IF ~passes_filters(disk, args, p_abs, p_display) THEN st
    ELSE IF within_size(disk, p_abs, args.size_kb)
    THEN [kept |-> kept_put(st.kept, p_display, p_abs), skipped |-> st.skipped]
    ELSE [kept |-> kept_put(st.kept, p_display, p_abs),
          skipped |-> Append(st.skipped, <<p_display, disk[p_abs].st_size \div 1024>>)]

\* The body of the second loop for one candidate, on st = [kept, skipped]:
\* the filters, then the size gate.
filter_step(disk, args, p_abs, p_display, st) ==
    IF ~passes_filters(disk, args, p_abs, p_display) THEN st
    ELSE IF within_size(disk, p_abs, args.size_kb)
    THEN [kept |-> kept_put(st.kept, p_display, p_abs), skipped |-> st.skipped]
    ELSE [kept |-> st.kept,
          skipped |-> Append(st.skipped, <<p_display, disk[p_abs].st_size \div 1024>>)]

RECURSIVE filter_loop(_, _, _, _)
\* The second loop over the candidates.
filter_loop(disk, args, candidates, st) ==
    IF candidates = <<>> THEN st
    ELSE filter_loop(disk, args, Tail(candidates),
             filter_step(disk, args, Head(candidates)[1], Head(candidates)[2], st))

\* collect as a function of its arguments, the lister's answers and the disk.
collect(args, lister, disk) ==
    LET st == filter_loop(disk, args,
                  pool(args.repo_roots, lister, args.project_root),
                  [kept |-> <<>>, skipped |-> <<>>])
    IN  [kept |-> sorted_items(st.kept), skipped |-> sorted_entries(st.skipped)]

RepoA == Abs(<< <<"a">> >>)
CollectRoots == {start_path, RepoA}

\* What a RepoRoot can track: paths relative to it.
Tracked(root) == IF root = start_path THEN Files ELSE {<< <<"b">> >>}

RECURSIVE ListingsUpTo(_, _)
\* The lists of at most n different paths of S, in every order.
ListingsUpTo(S, n) ==
    IF n = 0 THEN {<<>>}
    ELSE LET shorter == ListingsUpTo(S, n - 1)
         IN  shorter \cup UNION {{Append(l, x) : x \in S \ Range(l)} : l \in shorter}

\* What the lister answers for each RepoRoot of the list collect is given.
Listers(roots) ==
    {[r \in CollectRoots |-> IF r = start_path THEN l_root ELSE l_a] :
        l_root \in (IF start_path \in Range(roots)
                    THEN ListingsUpTo(Tracked(start_path), MaxListed) ELSE {<<>>}),
        l_a \in (IF RepoA \in Range(roots)
                 THEN ListingsUpTo(Tracked(RepoA), MaxListed) ELSE {<<>>})}

OnDisk(size_kb, state) ==
    [is_file |-> state # "gone",
     st_size |-> IF state = "large" THEN size_kb * 1024 + 1 ELSE size_kb * 1024]

\* Every file is at the ceiling exactly, but for at most one of a/b and a.b/x,
\* which is one byte over it or is no longer there.
Disks(size_kb) ==
    {[f \in {Abs(x) : x \in Files} |-> OnDisk(size_kb, "ok")]}
    \cup {[f \in {Abs(x) : x \in Files} |->
              IF f = g THEN OnDisk(size_kb, st) ELSE OnDisk(size_kb, "ok")] :
          g \in {Abs(FileAB), Abs(FileABX)}, st \in {"large", "gone"}}

CollectArgs ==
    [repo_roots : UNION {Perms(S) : S \in (SUBSET CollectRoots) \ {{}}},
     size_kb : {DEFAULT_SIZE_KB},
     project_root : {start_path},
     paths : {<<>>, <<RepoA>>},
     only : {<<>>, << <<"a", "*">> >>},
     exclude : {<<>>, << <<"*", ".", "g", "z">>, <<"a", ".", "b">> >>},
     allow : {<<>>, << <<"*", ".", "g", "z">> >>}]

CollectInit ==
    /\ c_pc = "call"
    /\ c_args \in CollectArgs
    /\ c_lister \in Listers(c_args.repo_roots)
    /\ c_disk \in Disks(c_args.size_kb)
    /\ all_git_files = <<>>
    /\ c_next = 0
    /\ kept_files = <<>>
    /\ skipped_large = <<>>
    /\ c_result = [kept |-> <<>>, skipped |-> <<>>]

CollectIdle ==
    /\ c_pc = "off"
    /\ c_args = [repo_roots |-> <<>>, size_kb |-> DEFAULT_SIZE_KB,
                 project_root |-> start_path, paths |-> <<>>, only |-> <<>>,
                 exclude |-> <<>>, allow |-> <<>>]
    /\ c_lister = [r \in {} |-> <<>>]
    /\ c_disk = [f \in {} |-> OnDisk(DEFAULT_SIZE_KB, "ok")]
    /\ all_git_files = <<>>
    /\ c_next = 0
    /\ kept_files = <<>>
    /\ skipped_large = <<>>
    /\ c_result = [kept |-> <<>>, skipped |-> <<>>]

\* The first loop: the candidates of every RepoRoot are pooled.
Collect_Pool ==
    /\ c_pc = "call"
    /\ c_pc' = "filter"
    /\ all_git_files' = pool(c_args.repo_roots, c_lister, c_args.project_root)
    /\ c_next' = 0
    /\ kept_files' = <<>>
    /\ skipped_large' = <<>>
    /\ UNCHANGED <<c_args, c_lister, c_disk, c_result, walkVars, matchVars, runVars, helperVars, clipVars>>

\* One iteration of the second loop.
Collect_Candidate ==
    /\ c_pc = "filter"
    /\ c_next < Len(all_git_files)
    /\ LET st == filter_step(c_disk, c_args, all_git_files[c_next + 1][1],
                             all_git_files[c_next + 1][2],
                             [kept |-> kept_files, skipped |-> skipped_large])
       IN  /\ kept_files' = st.kept
           /\ skipped_large' = st.skipped
    /\ c_next' = c_next + 1
    /\ UNCHANGED <<c_pc, c_args, c_lister, c_disk, all_git_files, c_result,
                   walkVars, matchVars, runVars, helperVars, clipVars>>

\* return sorted(kept_files.items()), sorted(skipped_large)
Collect_Return ==
    /\ c_pc = "filter"
    /\ c_next = Len(all_git_files)
    /\ c_pc' = "returned"
    /\ c_result' = [kept |-> sorted_items(kept_files),
                    skipped |-> sorted_entries(skipped_large)]
    /\ UNCHANGED <<c_args, c_lister, c_disk, all_git_files, c_next, kept_files,
                   skipped_large, walkVars, matchVars, runVars, helperVars, clipVars>>

CollectNext == Collect_Pool \/ Collect_Candidate \/ Collect_Return

-----------------------------------------------------------------------------
(* Renderer: dump_repos, dump_files, dump_contents *)

\* A block written to the artifact.
Line(kind, path, text, n) == [kind |-> kind, path |-> path, text |-> text, n |-> n]

\* _write_preamble: START <project-name> (<project-path>) and the rule line.
write_preamble(project_root) == Line("START", project_root, "", 0)

\* _write_end_marker: the rule line and END <project-path>.
write_end_marker(project_root) == Line("END", project_root, "", 0)

\* PurePath.suffix: the last component from its last dot on, unless that dot
\* is its first or its last character.
suffix(path) ==
    LET name == Name(path)
        dots == {i \in 1..Len(name) : name[i] = "."}
        last == CHOOSE i \in dots : \A j \in dots : j <= i
    IN  IF dots = {} THEN <<>>
        ELSE IF last = 1 \/ last = Len(name) THEN <<>>
        ELSE SubSeq(name, last, Len(name))

IPYNB == <<".", "i", "p", "y", "n", "b">>

\* What a file is when the renderer reads it.
ReadStates == {"ok", "malformed", "unreadable", "gone"}

\* strip_ipynb: the stripped notebook; when the notebook does not parse, the
\* raw text, read again; that second read raises when the file cannot be read.
strip_ipynb(state) ==
    CASE state = "ok" -> "stripped"
      [] state = "malformed" -> "raw"
      [] OTHER -> "raised"

\* Path.read_text(encoding="utf-8", errors="replace")
read_text(state) == IF state \in {"ok", "malformed"} THEN "text" ELSE "raised"

content_marker_only_when_gone(absolute_p, truncate_ipynb, state) ==
    LET read == IF suffix(absolute_p) = IPYNB /\ truncate_ipynb
                THEN strip_ipynb(state)
                ELSE read_text(state)
    IN  IF read = "raised" /\ state = "gone" THEN "error" ELSE read

\* The content dump_contents writes for one file: what was read, or the
\* "# ERROR reading" marker when the read raised.
content_of(absolute_p, truncate_ipynb, state) ==
    LET read == IF suffix(absolute_p) = IPYNB /\ truncate_ipynb
                THEN strip_ipynb(state)
                ELSE read_text(state)
    IN  IF read = "raised" THEN "error" ELSE read

\* dump_repos, between the preamble and the end marker.
repos_body(roots, depth) ==
    << Line("REPOSITORIES", <<>>, "", depth),
       Line("TREE", <<>>, "", Len(roots)),
       Line("FOUND", <<>>, "", Len(roots)) >>

\* dump_files, between the preamble and the end marker.
files_body(files_to_dump) ==
    << Line("FILES", <<>>, "", Len(files_to_dump)) >>
    \o [i \in 1..Len(files_to_dump) |-> Line("PATH", files_to_dump[i][1], "", 0)]

\* dump_contents: the banner of a file and its content.
file_blocks(display_p, absolute_p, truncate_ipynb, state) ==
    << Line("FILE", display_p, "", 0),
       Line("CONTENT", display_p, content_of(absolute_p, truncate_ipynb, state), 0) >>

footer_before_end_marker(lines, skipped, size_kb) ==
    SubSeq(lines, 1, Len(lines) - 1)
    \o << Line("SKIPPED", <<>>, "", Len(skipped)) >>
    \o [i \in 1..Len(skipped) |-> Line("SKIPPED_FILE", skipped[i][1], "", skipped[i][2])]
    \o << lines[Len(lines)] >>

\* dump_contents: the footer, appended to the file after it was closed.
append_footer(lines, skipped, size_kb) ==
    lines
    \o << Line("SKIPPED", <<>>, "", Len(skipped)) >>
    \o [i \in 1..Len(skipped) |-> Line("SKIPPED_FILE", skipped[i][1], "", skipped[i][2])]

-----------------------------------------------------------------------------
(* The run: cli.main *)

\* The trees of the run: a directory a below the current directory; no
\* repository, the current directory a repository, or a as well; or a link l
\* to a repository outside the current directory, with a a repository or not.
RunTrees ==
    {[dirs |-> {<< <<"a">> >>}, git |-> G, links |-> {}] :
        G \in {{}, {<<>>}, {<<>>, << <<"a">> >>}}}
    \cup {[dirs |-> {<< <<"a">> >>}, git |-> G,
           links |-> {[at |-> <<LinkName>>, to |-> OutsideDir]}] :
        G \in {{OutsideDir}, {<< <<"a">> >>, OutsideDir}}}

\* The RepoRoots of the run.
RunRoots == CollectRoots \cup {OutsideDir}

\* The files of the run, as absolute paths.
RunPaths == {Abs(x) : x \in RunFiles} \cup {FileOutside}

\* The current directory tracks x.go and n.ipynb, the repository a tracks b,
\* the repository outside tracks ab.
RunListers ==
    {[r \in RunRoots |-> IF r = start_path THEN l
                         ELSE IF r = RepoA THEN << << <<"b">> >> >>
                         ELSE << << <<"a", "b">> >> >>] :
        l \in ListingsUpTo({FileGo, FileIpynb}, 2)}

\* Every file is at the ceiling exactly, but for at most one, one byte over it.
RunDisks ==
    {[f \in RunPaths |-> OnDisk(DEFAULT_SIZE_KB, "ok")]}
    \cup {[f \in RunPaths |->
              IF f = g THEN OnDisk(DEFAULT_SIZE_KB, "large")
              ELSE OnDisk(DEFAULT_SIZE_KB, "ok")] : g \in {Abs(x) : x \in RunFiles}}

ZoomLevels == {"repos", "files", "contents"}

CommandLinesOfRun ==
    [zoom : ZoomLevels,
     clipboard : BOOLEAN,
     only : {<<>>, << <<"a", "*">> >>, << <<"b">> >>},
     truncate_ipynb : BOOLEAN,
     depth : {-1}]

NoFiles == [kept |-> <<>>, skipped |-> <<>>]
NoCommand == [zoom |-> "contents", clipboard |-> FALSE, only |-> <<>>,
              truncate_ipynb |-> TRUE, depth |-> 0]

RunInit ==
    /\ r_pc = "start"
    /\ r_cmd \in CommandLinesOfRun
    /\ r_fs \in RunTrees
    /\ r_lister \in RunListers
    /\ r_disk \in RunDisks
    /\ r_roots = <<>>
    /\ r_files = NoFiles
    /\ artifact = <<>>
    /\ r_next = 0
    /\ r_reads = {}
    /\ r_log = <<>>
    /\ r_status = -1
    /\ r_parse = "none"
    /\ r_clip = "none"

RunIdle ==
    /\ r_pc = "off"
    /\ r_cmd = NoCommand
    /\ r_fs = EmptyFS
    /\ r_lister = [r \in {} |-> <<>>]
    /\ r_disk = [f \in {} |-> OnDisk(DEFAULT_SIZE_KB, "ok")]
    /\ r_roots = <<>>
    /\ r_files = NoFiles
    /\ artifact = <<>>
    /\ r_next = 0
    /\ r_reads = {}
    /\ r_log = <<>>
    /\ r_status = -1
    /\ r_parse = "none"
    /\ r_clip = "none"

parse_exit_usage_as_failure(outcome) == IF outcome = "usage_error" THEN 1 ELSE 0

\* The exit status when argparse ends the process: 2 for a command line it
\* rejects, 0 after --help.
parse_exit(outcome) == IF outcome = "usage_error" THEN 2 ELSE 0

\* Where main goes after a non-empty discovery.
after_discovery_always_collects(zoom) == IF zoom = "repos" THEN "collect" ELSE "collect"

after_discovery(zoom) == IF zoom = "repos" THEN "render" ELSE "collect"

clipboard_exit_advisory(copied) == IF copied THEN 0 ELSE 0

\* The status main returns after the clipboard copy it was asked for.
clipboard_exit(copied) == IF copied THEN 0 ELSE 1

\* The arguments main gives collect.
collect_args(cmd, roots) ==
    [repo_roots |-> roots, size_kb |-> DEFAULT_SIZE_KB,
     project_root |-> start_path, paths |-> <<>>, only |-> cmd.only,
     exclude |-> <<>>, allow |-> <<>>]

\* parse_args: argparse ends the process itself on --help and on a command
\* line it rejects.
Run_Parse ==
    /\ r_pc = "start"
    /\ \E outcome \in {"parsed", "usage_error", "help"} :
          /\ r_parse' = outcome
          /\ IF outcome = "parsed"
             THEN r_pc' = "discover" /\ UNCHANGED r_status
             ELSE r_pc' = "exited" /\ r_status' = parse_exit(outcome)
    /\ UNCHANGED <<r_cmd, r_fs, r_lister, r_disk, r_roots, r_files, artifact,
                   r_next, r_reads, r_log, r_clip, walkVars, collectVars, matchVars,
                   helperVars, clipVars>>

\* find_git_repo_roots and the test of its result.
Run_Discover ==
    /\ r_pc = "discover"
    /\ r_roots' = find_git_repo_roots(r_fs,
                      IF r_cmd.depth = -1 THEN Infinity ELSE Number(r_cmd.depth),
                      r_cmd.only, <<>>)
    /\ r_log' = Append(r_log, "discover")
    /\ IF r_roots' = <<>>
       THEN r_pc' = "exited" /\ r_status' = 1
       ELSE r_pc' = after_discovery(r_cmd.zoom) /\ UNCHANGED r_status
    /\ UNCHANGED <<r_cmd, r_fs, r_lister, r_disk, r_files, artifact, r_next,
                   r_reads, r_parse, r_clip, walkVars, collectVars, matchVars,
                   helperVars, clipVars>>

\* collect and the test of its result; the lister ends the process when the
\* git command is not there.
Run_Collect ==
    /\ r_pc = "collect"
    /\ \E git \in {"found", "missing"} :
          IF git = "missing"
          THEN /\ r_log' = r_log \o <<"collect", "lister">>
               /\ r_pc' = "exited"
               /\ r_status' = 1
               /\ UNCHANGED r_files
          ELSE /\ r_log' = r_log \o <<"collect">> \o [i \in 1..Len(r_roots) |-> "lister"]
               /\ r_files' = collect(collect_args(r_cmd, r_roots), r_lister, r_disk)
               /\ IF r_files'.kept = <<>>
                  THEN r_pc' = "exited" /\ r_status' = 1
                  ELSE r_pc' = "render" /\ UNCHANGED r_status
    /\ UNCHANGED <<r_cmd, r_fs, r_lister, r_disk, r_roots, artifact, r_next,
                   r_reads, r_parse, r_clip, walkVars, collectVars, matchVars,
                   helperVars, clipVars>>

\* The renderer creates the output file and writes the preamble; an OSError
\* ends the process with a message.
Run_Render_Open ==
    /\ r_pc = "render"
    /\ r_log' = Append(r_log, "render")
    /\ \E opened \in BOOLEAN :
          IF opened
          THEN /\ artifact' = <<write_preamble(start_path)>>
               /\ r_pc' = "body"
               /\ UNCHANGED r_status
          ELSE /\ r_pc' = "exited"
               /\ r_status' = 1
               /\ UNCHANGED artifact
    /\ UNCHANGED <<r_cmd, r_fs, r_lister, r_disk, r_roots, r_files, r_next,
                   r_reads, r_parse, r_clip, walkVars, collectVars, matchVars,
                   helperVars, clipVars>>

\* dump_repos and dump_files after the preamble.
Run_Render_Listing ==
    /\ r_pc = "body"
    /\ r_cmd.zoom \in {"repos", "files"}
    /\ artifact' = artifact
                   \o (IF r_cmd.zoom = "repos"
                       THEN repos_body(r_roots, r_cmd.depth)
                       ELSE files_body(r_files.kept))
                   \o <<write_end_marker(start_path)>>
    /\ r_pc' = "publish"
    /\ UNCHANGED <<r_cmd, r_fs, r_lister, r_disk, r_roots, r_files, r_next,
                   r_reads, r_log, r_status, r_parse, r_clip, walkVars, collectVars, matchVars,
                   helperVars, clipVars>>

\* dump_contents: one iteration of the loop over files_to_dump.
Run_Render_File ==
    /\ r_pc = "body"
    /\ r_cmd.zoom = "contents"
    /\ r_next < Len(r_files.kept)
    /\ \E state \in ReadStates :
          /\ artifact' = artifact \o file_blocks(r_files.kept[r_next + 1][1],
                                                 r_files.kept[r_next + 1][2],
                                                 r_cmd.truncate_ipynb, state)
          /\ r_reads' = r_reads \cup {[path |-> r_files.kept[r_next + 1][2],
                                       state |-> state]}
    /\ r_next' = r_next + 1
    /\ UNCHANGED <<r_pc, r_cmd, r_fs, r_lister, r_disk, r_roots, r_files,
                   r_log, r_status, r_parse, r_clip, walkVars, collectVars, matchVars,
                   helperVars, clipVars>>

\* dump_contents: the end marker, after the loop; the file is closed.
Run_Render_End ==
    /\ r_pc = "body"
    /\ r_cmd.zoom = "contents"
    /\ r_next = Len(r_files.kept)
    /\ artifact' = Append(artifact, write_end_marker(start_path))
    /\ r_pc' = IF r_files.skipped # <<>> THEN "footer" ELSE "publish"
    /\ UNCHANGED <<r_cmd, r_fs, r_lister, r_disk, r_roots, r_files, r_next,
                   r_reads, r_log, r_status, r_parse, r_clip, walkVars, collectVars, matchVars,
                   helperVars, clipVars>>

\* dump_contents: the file is opened again and the footer appended.
Run_Render_Footer ==
    /\ r_pc = "footer"
    /\ \E opened \in BOOLEAN :
          IF opened
          THEN /\ artifact' = append_footer(artifact, r_files.skipped, DEFAULT_SIZE_KB)
               /\ r_pc' = "publish"
               /\ UNCHANGED r_status
          ELSE /\ r_pc' = "exited"
               /\ r_status' = 1
               /\ UNCHANGED artifact
    /\ UNCHANGED <<r_cmd, r_fs, r_lister, r_disk, r_roots, r_files, r_next,
                   r_reads, r_log, r_parse, r_clip, walkVars, collectVars, matchVars,
                   helperVars, clipVars>>

\* A write to the open output file raises OSError: the process ends with a
\* message, what was written stays.
Run_Write_Error ==
    /\ r_pc = "body"
    /\ r_pc' = "exited"
    /\ r_status' = 1
    /\ UNCHANGED <<r_cmd, r_fs, r_lister, r_disk, r_roots, r_files, artifact,
                   r_next, r_reads, r_log, r_parse, r_clip, walkVars, collectVars, matchVars,
                   helperVars, clipVars>>

\* After the renderer: the clipboard copy when -c was given, and the return.
Run_Publish ==
    /\ r_pc = "publish"
    /\ r_pc' = "exited"
    /\ IF r_cmd.clipboard
       THEN /\ r_log' = Append(r_log, "clipboard")
            /\ \E copied \in BOOLEAN :
                  /\ r_clip' = IF copied THEN "copied" ELSE "failed"
                  /\ r_status' = clipboard_exit(copied)
       ELSE /\ r_status' = 0
            /\ UNCHANGED <<r_log, r_clip>>
    /\ UNCHANGED <<r_cmd, r_fs, r_lister, r_disk, r_roots, r_files, artifact,
                   r_next, r_reads, r_parse, walkVars, collectVars, matchVars,
                   helperVars, clipVars>>

Running == r_pc \in {"start", "discover", "collect", "render", "body", "footer", "publish"}

\* KeyboardInterrupt anywhere in main.
Run_Interrupt ==
    /\ Running
    /\ r_pc' = "exited"
    /\ r_status' = 130
    /\ UNCHANGED <<r_cmd, r_fs, r_lister, r_disk, r_roots, r_files, artifact,
                   r_next, r_reads, r_log, r_parse, r_clip, walkVars, collectVars, matchVars,
                   helperVars, clipVars>>

\* Any other exception in discovery or collection: main logs it and returns 1.
Run_Unexpected ==
    /\ r_pc \in {"discover", "collect"}
    /\ r_pc' = "exited"
    /\ r_status' = 1
    /\ UNCHANGED <<r_cmd, r_fs, r_lister, r_disk, r_roots, r_files, artifact,
                   r_next, r_reads, r_log, r_parse, r_clip, walkVars, collectVars, matchVars,
                   helperVars, clipVars>>

RunNext ==
    \/ Run_Parse
    \/ Run_Discover
    \/ Run_Collect
    \/ Run_Render_Open
    \/ Run_Render_Listing
    \/ Run_Render_File
    \/ Run_Render_End
    \/ Run_Render_Footer
    \/ Run_Write_Error
    \/ Run_Publish
    \/ Run_Interrupt
    \/ Run_Unexpected

-----------------------------------------------------------------------------
(* JSON: the values json.loads builds and the text json.dumps writes *)

\* A JSON value is [t, v]: t its type, v its content.  An object holds its
\* members as a list of <<key, value>> in insertion order, like a dict.
JNull == [t |-> "null", v |-> 0]
JNum(n) == [t |-> "number", v |-> n]
JStr(s) == [t |-> "string", v |-> s]
JArr(elems) == [t |-> "array", v |-> elems]
JObj(items) == [t |-> "object", v |-> items]

\* The punctuation of a JSON text; every other token is a null, a number or a
\* string.
Punct(c) == [t |-> "punct", v |-> c]

DictKeys(items) == {items[i][1] : i \in 1..Len(items)}

\* dict.get(key, default)
DictGet(items, key, default) ==
    IF key \in DictKeys(items)
    THEN items[CHOOSE i \in 1..Len(items) : items[i][1] = key][2]
    ELSE default

\* dict.pop(key, None): the dict without the key.
DictPop(items, key) == SelectSeq(items, LAMBDA kv : kv[1] # key)

\* dict[key] = value: in place when the key is there, else at the end.
DictSet(items, key, value) ==
    IF key \in DictKeys(items)
    THEN [i \in 1..Len(items) |-> IF items[i][1] = key THEN <<key, value>> ELSE items[i]]
    ELSE Append(items, <<key, value>>)

RECURSIVE dumps(_)
RECURSIVE dumps_elems(_)
RECURSIVE dumps_items(_)
\* json.dumps: the tokens of the text, in order.
dumps(j) ==
    CASE j.t = "array" -> <<Punct("[")>> \o dumps_elems(j.v) \o <<Punct("]")>>
      [] j.t = "object" -> <<Punct("{")>> \o dumps_items(j.v) \o <<Punct("}")>>
      [] OTHER -> <<j>>

dumps_elems(elems) ==
    IF elems = <<>> THEN <<>>
    ELSE IF Len(elems) = 1 THEN dumps(elems[1])
    ELSE dumps(Head(elems)) \o <<Punct(",")>> \o dumps_elems(Tail(elems))

dumps_items(items) ==
    IF items = <<>> THEN <<>>
    ELSE LET member == <<JStr(Head(items)[1]), Punct(":")>> \o dumps(Head(items)[2])
         IN  IF Len(items) = 1 THEN member
             ELSE member \o <<Punct(",")>> \o dumps_items(Tail(items))

\* What the parser answers: the value read and the place of the next token, or
\* ok = FALSE for json.JSONDecodeError.
Parsed(val, next) == [ok |-> TRUE, val |-> val, next |-> next]
DecodeError == [ok |-> FALSE, val |-> JNull, next |-> 0]

IsPunct(toks, i, c) == i <= Len(toks) /\ toks[i] = Punct(c)

RECURSIVE parse_value(_, _)
RECURSIVE parse_elems(_, _, _, _)
RECURSIVE parse_items(_, _, _, _)
\* The JSON decoder on the tokens from place i on.
parse_value(toks, i) ==
    IF i > Len(toks) THEN DecodeError
    ELSE IF toks[i] = Punct("[") THEN
        IF IsPunct(toks, i + 1, "]") THEN Parsed(JArr(<<>>), i + 2)
        ELSE parse_elems(toks, i + 1, <<>>, TRUE)
    ELSE IF toks[i] = Punct("{") THEN
        IF IsPunct(toks, i + 1, "}") THEN Parsed(JObj(<<>>), i + 2)
        ELSE parse_items(toks, i + 1, <<>>, TRUE)
    ELSE IF toks[i].t = "punct" THEN DecodeError
    ELSE Parsed(toks[i], i + 1)

\* The elements of an array; want is TRUE where an element has to follow.
parse_elems(toks, i, acc, want) ==
    IF i > Len(toks) THEN DecodeError
    ELSE IF want THEN
        LET r == parse_value(toks, i)
        IN  IF r.ok THEN parse_elems(toks, r.next, Append(acc, r.val), FALSE)
            ELSE DecodeError
    ELSE IF toks[i] = Punct("]") THEN Parsed(JArr(acc), i + 1)
    ELSE IF toks[i] = Punct(",") THEN parse_elems(toks, i + 1, acc, TRUE)
    ELSE DecodeError

\* The members of an object: a key that is repeated keeps its first place and
\* takes the last value.
parse_items(toks, i, acc, want) ==
    IF i > Len(toks) THEN DecodeError
    ELSE IF want THEN
        IF toks[i].t = "string" /\ IsPunct(toks, i + 1, ":")
        THEN LET r == parse_value(toks, i + 2)
             IN  IF r.ok
                 THEN parse_items(toks, r.next, DictSet(acc, toks[i].v, r.val), FALSE)
                 ELSE DecodeError
        ELSE DecodeError
    ELSE IF toks[i] = Punct("}") THEN Parsed(JObj(acc), i + 1)
    ELSE IF toks[i] = Punct(",") THEN parse_items(toks, i + 1, acc, TRUE)
    ELSE DecodeError

\* json.loads: the whole text is one value.
loads(toks) ==
    LET r == parse_value(toks, 1)
    IN  IF r.ok /\ r.next = Len(toks) + 1 THEN r ELSE DecodeError

-----------------------------------------------------------------------------
(* Notebook stripping: strip_ipynb on the text of the file *)

strip_cell_keeps_metadata(cell) ==
    IF cell.t = "object"
    THEN JObj(DictSet(DictPop(cell.v, "outputs"), "execution_count", JNull))
    ELSE cell

\* The body of the loop: a cell that is a dict loses outputs and metadata and
\* gets execution_count None; any other element is left alone.
strip_cell(cell) ==
    IF cell.t = "object"
    THEN JObj(DictSet(DictPop(DictPop(cell.v, "outputs"), "metadata"),
                      "execution_count", JNull))
    ELSE cell

\* The try block after json.loads: [ok, nb].  nb.get raises AttributeError when
\* nb is no dict, and the for loop TypeError when "cells" cannot be iterated;
\* iterating a dict or a string yields no dict, so nothing changes.
strip_notebook(nb) ==
    IF nb.t # "object" THEN [ok |-> FALSE, nb |-> nb]
    ELSE LET cells == DictGet(nb.v, "cells", JArr(<<>>))
         IN  IF cells.t \in {"null", "number"} THEN [ok |-> FALSE, nb |-> nb]
             ELSE IF cells.t # "array" \/ "cells" \notin DictKeys(nb.v)
             THEN [ok |-> TRUE, nb |-> nb]
             ELSE [ok |-> TRUE,
                   nb |-> JObj(DictSet(nb.v, "cells",
                              JArr([i \in 1..Len(cells.v) |-> strip_cell(cells.v[i])])))]

\* strip_ipynb on the text of a readable file: the stripped notebook written
\* by json.dumps, or the raw text when any step of the try block raised.
strip_ipynb_text(text) ==
    LET r == loads(text)
    IN  IF ~r.ok THEN [kind |-> "raw", text |-> text]
        ELSE LET s == strip_notebook(r.val)
             IN  IF s.ok THEN [kind |-> "stripped", text |-> dumps(s.nb)]
                 ELSE [kind |-> "raw", text |-> text]

-----------------------------------------------------------------------------
(* Content normalisation of dump_contents *)

\* Characters str.rstrip() removes (those of them a content of the model has).
WHITESPACE == {" ", "\n", "\t"}

RECURSIVE rstrip(_)
rstrip(s) ==
    IF s = <<>> THEN <<>>
    ELSE IF s[Len(s)] \in WHITESPACE THEN rstrip(SubSeq(s, 1, Len(s) - 1))
    ELSE s

\* dump_contents with the trailing whitespace of the content left in place.
normalize_keeps_trailing(content) ==
    IF content # <<>> THEN content \o <<"\n">> ELSE content

\* dump_contents: if content: content = content.rstrip() + "\n"
normalize_content(content) ==
    IF content # <<>> THEN rstrip(content) \o <<"\n">> ELSE content

\* The characters of the contents of the model.
ContentChars == {"a", " ", "\n"}

RECURSIVE StringsUpTo(_, _)
StringsUpTo(S, n) ==
    IF n = 0 THEN {<<>>}
    ELSE LET shorter == StringsUpTo(S, n - 1)
         IN  shorter \cup {Append(s, c) : s \in shorter, c \in S}

\* What read_text or strip_ipynb returned for a file.
Contents == StringsUpTo(ContentChars, MaxContentLen)

-----------------------------------------------------------------------------
(* The repository tree: _build_repo_tree and the summary of dump_repos *)

\* The key _build_repo_tree keeps in a node for "this directory is a repository".
IS_REPO == <<"_", "_", "i", "s", "_", "r", "e", "p", "o", "_", "_">>

\* The values of the nested dict: a dict (a function from keys to values), the
\* value True, and the outcome of an operation that raised TypeError.
TreeDict(items) == [t |-> "dict", items |-> items]
TreeTrue == [t |-> "True", items |-> <<>>]
TypeError == [t |-> "TypeError", items |-> <<>>]

\* node[key] = value
TreeSet(items, key, value) ==
    [k \in DOMAIN items \cup {key} |-> IF k = key THEN value ELSE items[k]]

\* bool(value) of a value of the tree.
NodeTruthy(node) == node.t = "True" \/ (node.t = "dict" /\ DOMAIN node.items # {})

RECURSIVE tree_insert(_, _)
\* The inner loop over parts and the assignment current["__is_repo__"] = True,
\* on the node current; `part not in current` and the item assignment raise
\* TypeError when current is True.
tree_insert(current, parts) ==
    IF current.t # "dict" THEN TypeError
    ELSE IF parts = <<>> THEN TreeDict(TreeSet(current.items, IS_REPO, TreeTrue))
    ELSE LET part == Head(parts)
             child == IF part \in DOMAIN current.items
                      THEN current.items[part]
                      ELSE TreeDict(<<>>)
             sub == tree_insert(child, Tail(parts))
         IN  IF sub.t = "TypeError" THEN TypeError
             ELSE TreeDict(TreeSet(current.items, part, sub))

RECURSIVE build_tree(_, _, _)
\* The loop over repo_roots.
build_tree(tree, roots, project_root) ==
    IF roots = <<>> \/ tree.t = "TypeError" THEN tree
    ELSE LET repo == Head(roots)
             rel == IF IsUnder(repo, project_root) THEN Below(repo, project_root) ELSE repo
             parts == IF rel # <<>> THEN rel ELSE <<DOT>>
         IN  build_tree(tree_insert(tree, parts), Tail(roots), project_root)

TreeLine(prefix, connector, name, line_suffix, marker) ==
    [prefix |-> prefix, connector |-> connector, name |-> name, suffix |-> line_suffix,
     marker |-> marker]

RECURSIVE render_items(_, _, _)
\* render_tree: the lines of the keys of node from the i-th on, in sorted
\* order; a value under a key other than "__is_repo__" is always a dict.
render_items(node, prefix, names) ==
    IF names = <<>> THEN <<>>
    ELSE LET name == Head(names)
             subtree == node.items[name]
             is_last_item == Len(names) = 1
             connector == IF is_last_item THEN "last" ELSE "middle"
             is_repo == IF IS_REPO \in DOMAIN subtree.items
                        THEN NodeTruthy(subtree.items[IS_REPO])
                        ELSE FALSE
             has_children == \E k \in DOMAIN subtree.items : k # IS_REPO
             line_suffix == IF is_repo /\ ~has_children THEN SLASH
                       ELSE IF has_children \/ (~is_repo /\ ~has_children) THEN SLASH
                       ELSE <<>>
             extension == IF is_last_item THEN "blank" ELSE "bar"
         IN  <<TreeLine(prefix, connector, name, line_suffix, is_repo)>>
             \o (IF has_children
                 THEN render_items(subtree, Append(prefix, extension),
                          SortedStrings(DOMAIN subtree.items \ {IS_REPO}))
                 ELSE <<>>)
             \o render_items(node, prefix, Tail(names))

render_tree(node) == render_items(node, <<>>, SortedStrings(DOMAIN node.items \ {IS_REPO}))

\* _build_repo_tree: the tree lines and the count, or the TypeError raised
\* while the tree is built.
build_repo_tree(roots_list, project_root) ==
    LET tree == build_tree(TreeDict(<<>>), roots_list, project_root)
    IN  IF tree.t = "TypeError"
        THEN [raised |-> TRUE, lines |-> <<>>, count |-> 0]
        ELSE IF Len(roots_list) = 1 /\ roots_list[1] = project_root
        THEN [raised |-> FALSE, lines |-> <<TreeLine(<<>>, "root", DOT, <<>>, TRUE)>>,
              count |-> 1]
        ELSE [raised |-> FALSE,
              lines |-> <<TreeLine(<<>>, "root", DOT, <<>>, FALSE)>> \o render_tree(tree),
              count |-> Len(roots_list)]

\* dump_repos: the tree lines and the summary line "Found: <count> <noun>"; an
\* exception of _build_repo_tree is not caught and nothing more is written.
dump_repos(roots_list, project_root) ==
    LET built == build_repo_tree(roots_list, project_root)
    IN  IF built.raised
        THEN [raised |-> TRUE, lines |-> <<>>, count |-> 0, noun |-> "none"]
        ELSE [raised |-> FALSE, lines |-> built.lines, count |-> built.count,
              noun |-> IF built.count = 1 THEN "repository" ELSE "repositories"]

\* Names of the directories of the repository lists.
TreeNames == {<<"a">>, <<"b">>, IS_REPO}

RECURSIVE PathsUpTo(_, _)
\* The relative paths of at most n components.
PathsUpTo(S, n) ==
    IF n = 0 THEN {<<>>}
    ELSE LET shorter == PathsUpTo(S, n - 1)
         IN  shorter \cup {Append(p, c) : p \in shorter, c \in S}

RECURSIVE SetsUpTo(_, _)
\* The subsets of S of at most n elements.
SetsUpTo(S, n) ==
    IF n = 0 THEN {{}}
    ELSE LET smaller == SetsUpTo(S, n - 1)
         IN  smaller \cup {Q \cup {x} : Q \in smaller, x \in S}

\* What find_git_repo_roots can return for a scan root: sorted lists of
\* distinct directories at or below it.
RepoRootLists(project_root) ==
    {sorted_paths(CHOOSE listing \in Perms({project_root \o rel : rel \in R}) : TRUE) :
        R \in SetsUpTo(PathsUpTo(TreeNames, MaxParts), MaxRepos)}

-----------------------------------------------------------------------------
(* The helper harness: strip_ipynb, the content normalisation, the tree *)

RECURSIVE ListsUpTo(_, _)
\* The lists of at most n elements of S.
ListsUpTo(S, n) ==
    IF n = 0 THEN {<<>>}
    ELSE LET shorter == ListsUpTo(S, n - 1)
         IN  shorter \cup {Append(l, x) : l \in shorter, x \in S}

\* The cells of the notebooks of the model: a source, and any of outputs,
\* metadata and an execution count that is a number or null; and an element
\* of "cells" that is no dict.
NotebookCells ==
    {JStr("x")} \cup
    {JObj(<< <<"source", JStr(s)>> >> \o out \o meta \o count) :
        s \in {"s1", "s2"},
        out \in {<<>>, << <<"outputs", JArr(<<JStr("o")>>)>> >>},
        meta \in {<<>>, << <<"metadata", JObj(<<>>)>> >>},
        count \in {<<>>, << <<"execution_count", JNum(1)>> >>,
                   << <<"execution_count", JNull>> >>}}

NotebookMetadata == <<"metadata", JObj(<< <<"k", JStr("v")>> >>)>>

\* What the file can hold: a notebook with a list of cells; a notebook without
\* "cells", with "cells" null, or with "cells" twice; a list; no JSON at all.
NotebookTexts ==
    {dumps(JObj(<< <<"cells", JArr(cells)>>, NotebookMetadata, <<"nbformat", JNum(4)>> >>)) :
        cells \in ListsUpTo(NotebookCells, MaxCells)}
    \cup {dumps(JObj(<<NotebookMetadata>>)),
          dumps(JObj(<< <<"cells", JNull>>, NotebookMetadata >>)),
          dumps(JObj(<< <<"cells", JArr(<<>>)>>, NotebookMetadata,
                        <<"cells", JArr(<<JObj(<< <<"outputs", JArr(<<>>)>> >>)>>)>> >>)),
          dumps(JArr(<<JObj(<< <<"outputs", JArr(<<>>)>> >>)>>)),
          <<Punct("{")>>}

HelperInit ==
    /\ h_fn = "none"
    /\ h_in = <<>>
    /\ h_out = <<>>

HelperIdle ==
    /\ h_fn = "off"
    /\ h_in = <<>>
    /\ h_out = <<>>

Call_strip_ipynb ==
    /\ h_fn = "none"
    /\ h_fn' = "strip_ipynb"
    /\ \E text \in NotebookTexts :
          /\ h_in' = text
          /\ h_out' = strip_ipynb_text(text)
    /\ UNCHANGED <<walkVars, collectVars, matchVars, runVars, clipVars>>

\* strip_ipynb on a file that holds what strip_ipynb returned.
Call_strip_ipynb_again ==
    /\ h_fn = "strip_ipynb"
    /\ h_out.kind = "stripped"
    /\ h_fn' = "strip_ipynb_again"
    /\ h_in' = h_out.text
    /\ h_out' = strip_ipynb_text(h_out.text)
    /\ UNCHANGED <<walkVars, collectVars, matchVars, runVars, clipVars>>

\* dump_contents on the content read for one file.
Call_normalize_content ==
    /\ h_fn = "none"
    /\ h_fn' = "normalize_content"
    /\ \E content \in Contents :
          /\ h_in' = content
          /\ h_out' = normalize_content(content)
    /\ UNCHANGED <<walkVars, collectVars, matchVars, runVars, clipVars>>

\* dump_repos on a list of repositories below the scan root.
Call_dump_repos ==
    /\ h_fn = "none"
    /\ h_fn' = "dump_repos"
    /\ \E roots \in RepoRootLists(start_path) :
          /\ h_in' = roots
          /\ h_out' = dump_repos(roots, start_path)
    /\ UNCHANGED <<walkVars, collectVars, matchVars, runVars, clipVars>>

HelperNext ==
    \/ Call_strip_ipynb
    \/ Call_strip_ipynb_again
    \/ Call_normalize_content
    \/ Call_dump_repos

-----------------------------------------------------------------------------
(* The clipboard helper: copy_text_to_clipboard *)

Tools == {"clip.exe", "powershell.exe", "pbcopy", "wl-copy", "xsel", "xclip"}

\* platform.system() and is_wsl(); WAYLAND_DISPLAY set or not; the keyword
\* enable_osc52; whether Path.home() finds a home directory; the names
\* shutil.which finds.
Environments ==
    [os : {"Windows", "Linux", "Darwin"},
     wsl : BOOLEAN,
     wayland : BOOLEAN,
     enable_osc52 : BOOLEAN,
     home : BOOLEAN,
     installed : SUBSET Tools]

NoEnvironment ==
    [os |-> "Linux", wsl |-> FALSE, wayland |-> FALSE, enable_osc52 |-> FALSE,
     home |-> TRUE, installed |-> {}]

\* How subprocess.run ends: exit status 0, another exit status,
\* TimeoutExpired, FileNotFoundError, another exception.
ToolOutcomes == {"ok", "exit1", "timeout", "notfound", "error"}

\* How run_xclip_background ends: can_use_xclip refuses, Popen started,
\* FileNotFoundError, another exception.
XclipOutcomes == {"guard", "ok", "notfound", "error"}

\* How osc52_copy ends: the sequence written to /dev/tty, or an exception.
Osc52Outcomes == {"ok", "error"}

which(name, env) == name \in env.installed

\* run_tool with every exception let through to the caller.
run_tool_without_except(outcome) ==
    [raised |-> outcome \in {"timeout", "notfound", "error"}, value |-> outcome = "ok"]

\* run_tool: every exception of subprocess.run is caught and gives False.
run_tool(outcome) == [raised |-> FALSE, value |-> outcome = "ok"]

run_xclip_background(outcome) == [raised |-> FALSE, value |-> outcome = "ok"]

osc52_copy(outcome) == [raised |-> FALSE, value |-> outcome = "ok"]

\* fix_display_env raises when it runs to Path.home() and no home directory
\* can be determined; it returns before that on WSL and under Wayland.
fix_display_env_raises(env) ==
    /\ ~(env.os # "Linux" \/ env.wsl)
    /\ ~env.wayland
    /\ ~env.home

ClipInit ==
    /\ k_env = NoEnvironment
    /\ k_pc = "idle"
    /\ k_ran = <<>>
    /\ k_result = "none"

ClipIdle ==
    /\ k_env = NoEnvironment
    /\ k_pc = "off"
    /\ k_ran = <<>>
    /\ k_result = "none"

\* One strategy has run and ended as the record r says: the call returns True
\* when it succeeded, and goes on to the next strategy otherwise.
Ran(name, outcome, r, next) ==
    /\ k_ran' = Append(k_ran, [strategy |-> name, outcome |-> outcome])
    /\ IF r.raised THEN k_result' = "raised" /\ k_pc' = "done"
       ELSE IF r.value THEN k_result' = "True" /\ k_pc' = "done"
       ELSE k_result' = k_result /\ k_pc' = next

\* tool = which(name); if tool and run_tool([tool, ...], text, timeout_s): return True
Attempt(name, next) ==
    IF which(name, k_env)
    THEN \E outcome \in ToolOutcomes : Ran(name, outcome, run_tool(outcome), next)
    ELSE Ran(name, "missing", [raised |-> FALSE, value |-> FALSE], next)

\* A block of copy_text_to_clipboard whose condition is false.
Skip(next) ==
    /\ k_pc' = next
    /\ UNCHANGED <<k_ran, k_result>>

Call_copy_text_to_clipboard ==
    /\ k_pc = "idle"
    /\ k_env' \in Environments
    /\ k_pc' = "clip.exe"
    /\ UNCHANGED <<k_ran, k_result, walkVars, collectVars, matchVars, runVars, helperVars>>

Try_clip ==
    /\ k_pc = "clip.exe"
    /\ IF k_env.os = "Windows" \/ (k_env.os = "Linux" /\ k_env.wsl)
       THEN Attempt("clip.exe", "powershell.exe")
       ELSE Skip("pbcopy")
    /\ UNCHANGED <<k_env, walkVars, collectVars, matchVars, runVars, helperVars>>

Try_powershell ==
    /\ k_pc = "powershell.exe"
    /\ Attempt("powershell.exe", "pbcopy")
    /\ UNCHANGED <<k_env, walkVars, collectVars, matchVars, runVars, helperVars>>

Try_pbcopy ==
    /\ k_pc = "pbcopy"
    /\ IF k_env.os = "Darwin" THEN Attempt("pbcopy", "wl-copy") ELSE Skip("wl-copy")
    /\ UNCHANGED <<k_env, walkVars, collectVars, matchVars, runVars, helperVars>>

\* wl = which("wl-copy"); if wl and os.environ.get("WAYLAND_DISPLAY"): ...
Try_wl_copy ==
    /\ k_pc = "wl-copy"
    /\ IF k_env.wayland THEN Attempt("wl-copy", "xsel") ELSE Skip("xsel")
    /\ UNCHANGED <<k_env, walkVars, collectVars, matchVars, runVars, helperVars>>

\* The X11 block: fix_display_env(), then xsel.
Try_xsel ==
    /\ k_pc = "xsel"
    /\ IF k_env.os = "Linux" /\ ~k_env.wayland
       THEN IF fix_display_env_raises(k_env)
            THEN Ran("fix_display_env", "error", [raised |-> TRUE, value |-> FALSE], "xsel")
            ELSE Attempt("xsel", "xclip")
       ELSE Skip("osc52")
    /\ UNCHANGED <<k_env, walkVars, collectVars, matchVars, runVars, helperVars>>

Try_xclip ==
    /\ k_pc = "xclip"
    /\ IF which("xclip", k_env)
       THEN \E outcome \in XclipOutcomes :
                Ran("xclip", outcome, run_xclip_background(outcome), "osc52")
       ELSE Ran("xclip", "missing", [raised |-> FALSE, value |-> FALSE], "osc52")
    /\ UNCHANGED <<k_env, walkVars, collectVars, matchVars, runVars, helperVars>>

Try_osc52 ==
    /\ k_pc = "osc52"
    /\ IF k_env.enable_osc52
       THEN \E outcome \in Osc52Outcomes :
                Ran("osc52", outcome, osc52_copy(outcome), "fail")
       ELSE Skip("fail")
    /\ UNCHANGED <<k_env, walkVars, collectVars, matchVars, runVars, helperVars>>

\* log.warning("All clipboard strategies failed ..."); return False
Return_False ==
    /\ k_pc = "fail"
    /\ k_result' = "False"
    /\ k_pc' = "done"
    /\ UNCHANGED <<k_env, k_ran, walkVars, collectVars, matchVars, runVars, helperVars>>

ClipNext ==
    \/ Call_copy_text_to_clipboard
    \/ Try_clip
    \/ Try_powershell
    \/ Try_pbcopy
    \/ Try_wl_copy
    \/ Try_xsel
    \/ Try_xclip
    \/ Try_osc52
    \/ Return_False

-----------------------------------------------------------------------------
(* Specifications *)

InitMatch == MatchInit /\ WalkIdle /\ CollectIdle /\ RunIdle /\ HelperIdle /\ ClipIdle
SpecMatch == InitMatch /\ [][MatchNext]_vars

Init == WalkInit /\ MatchIdle /\ CollectIdle /\ RunIdle /\ HelperIdle /\ ClipIdle
Spec == Init /\ [][WalkNext]_vars

\* Weak fairness of the loop body, WF_vars(WalkIteration), with the guard of
\* the action written for ENABLED <<WalkIteration>>_vars: an iteration always
\* advances head, so the action is enabled exactly when its guard holds.
IterationFair ==
    []<>~(pc = "walk" /\ head < Len(queue)) \/ []<><<WalkIteration>>_vars

\* The walk runs on: find_git_repo_roots is sequential code, which takes its
\* next step whenever it has one.
SpecWalkFair ==
    Init /\ [][WalkNext]_vars
         /\ WF_vars(Main_Discover) /\ IterationFair /\ WF_vars(WalkReturn)

InitCollect == CollectInit /\ WalkIdle /\ MatchIdle /\ RunIdle /\ HelperIdle /\ ClipIdle
SpecCollect == InitCollect /\ [][CollectNext]_vars

InitRun == RunInit /\ WalkIdle /\ MatchIdle /\ CollectIdle /\ HelperIdle /\ ClipIdle
SpecRun == InitRun /\ [][RunNext]_vars

InitHelper ==
    HelperInit /\ WalkIdle /\ MatchIdle /\ CollectIdle /\ RunIdle /\ ClipIdle
SpecHelper == InitHelper /\ [][HelperNext]_vars

InitClipboard ==
    ClipInit /\ WalkIdle /\ MatchIdle /\ CollectIdle /\ RunIdle /\ HelperIdle
SpecClipboard == InitClipboard /\ [][ClipNext]_vars

-----------------------------------------------------------------------------
(* Claims about the pattern matcher (SpecMatch) *)

IsSubtreePattern(p) == EndsWith(p, <<"/", "*", "*">>)
SubtreeRoot(p) == SubSeq(p, 1, Len(p) - 3)
IsLiteral(s) == \A i \in 1..Len(s) : s[i] \notin {"*", "?", "["}
IsExtensionPattern(p) ==
    /\ StartsWith(p, <<"*", ".">>)
    /\ ~Contains(p, SLASH)
    /\ IsLiteral(Tail(p))
ExtensionSuffix(p) == Tail(p)

\* D equals X or D starts with X/
AtOrUnder(D, X) == D = X \/ StartsWith(D, X \o SLASH)

\* C7 as stated: for every directory path D and every pattern X/**,
\* should_exclude_subtree(D, {X/**}) is true iff D equals X or D starts with X/.
C7_AsStated ==
    (m_fn = "should_exclude_subtree" /\ \A p \in m_patterns : IsSubtreePattern(p))
        => (m_out <=> \E p \in m_patterns : AtOrUnder(as_posix(m_path), SubtreeRoot(p)))

\* C7 amended: the equivalence holds for every X that contains no glob
\* metacharacter; for any X, a directory at or under X is pruned.
C7_LiteralRoot ==
    (m_fn = "should_exclude_subtree" /\ \A p \in m_patterns : IsSubtreePattern(p))
        => /\ (\E p \in m_patterns : AtOrUnder(as_posix(m_path), SubtreeRoot(p))) => m_out
           /\ (\A p \in m_patterns : IsLiteral(SubtreeRoot(p)))
                => (m_out => \E p \in m_patterns : AtOrUnder(as_posix(m_path), SubtreeRoot(p)))

C7_Witness ==
    /\ m_fn = "should_exclude_subtree"
    /\ m_patterns = {<<"a", "/", "*", "*">>}
    /\ m_path = << <<"a">>, <<"a", "b">> >>
    /\ m_out

\* C8: for every path P and bare extension pattern *.ext, matches_path(P, {*.ext})
\* is true iff some component of P, not necessarily the last, ends with .ext.
C8_ExtensionAnyComponent ==
    (m_fn = "matches_path" /\ \A p \in m_patterns : IsExtensionPattern(p))
        => (m_out <=> \E p \in m_patterns : \E i \in 1..Len(m_path) :
                        EndsWith(m_path[i], ExtensionSuffix(p)))

C8_Witness ==
    /\ m_fn = "matches_path"
    /\ m_patterns = {<<"*", ".", "b">>}
    /\ m_path = << <<"a", ".", "b">>, <<"a">> >>
    /\ m_out

-----------------------------------------------------------------------------
(* Claims about the repository discoverer (Spec) *)

RelOf(d) == IF IsUnder(d, start_path) THEN Below(d, start_path) ELSE <<>>
Enqueued == {queue[i][1] : i \in 1..Len(queue)}
Examined == {queue[i][1] : i \in 1..head}
Returned == Range(repo_roots)
GivenOnly == UNION {Range(argv[i][2]) : i \in {j \in 1..Len(argv) : argv[j][1] = OnlyFlag}}
GivenExclude == UNION {Range(argv[i][2]) : i \in {j \in 1..Len(argv) : argv[j][1] = ExcludeFlag}}
Walking == pc \in {"walk", "found"}

\* C1 as stated: for every exclude pattern X/** and every max_depth, no
\* directory whose relative path is X or lies under X/ is enqueued or examined,
\* and no returned RepoRoot lies at or under X.
C1_AsStated ==
    Walking =>
        \A p \in Range(exclude_patterns) :
            IsSubtreePattern(p) =>
                \A d \in (Enqueued \cup Returned) \ {start_path} :
                    ~AtOrUnder(as_posix(RelOf(d)), SubtreeRoot(p))

\* C2 as stated: every directory that holds repository metadata, lies at most
\* max_depth levels below the scan root, matches no exclude pattern, matches an
\* only pattern when any is given, and has no ancestor-or-self below the scan
\* root with a built-in excluded name or pruned by should_exclude_subtree, is
\* in the returned list.
Qualifies(rel) ==
    /\ HasGit(fs, Abs(rel))
    /\ DepthBelow(Len(rel) - 1, max_depth)
    /\ ~matches_path(rel, Range(exclude_patterns))
    /\ (only_patterns # <<>> => matches_path(rel, Range(only_patterns)))
    /\ \A k \in 1..Len(rel) :
          /\ rel[k] \notin GLOB_EXCLUDE_DIRS
          /\ ~should_exclude_subtree(SubSeq(rel, 1, k), Range(exclude_patterns))

C2_AsStated ==
    pc = "found" =>
        \A rel \in fs.dirs \cup {<<>>} : Qualifies(rel) => Abs(rel) \in Returned

C5_ExcludeSubtractive ==
    pc = "found" =>
        /\ \A d \in Returned \ {start_path} :
              \A p \in Range(exclude_patterns) : ~matches_path(RelOf(d), {p})
        /\ \A E \in SUBSET Range(exclude_patterns) :
              Returned \subseteq
                  Range(find_git_repo_roots(fs, max_depth, only_patterns, SortedStrings(E)))

C5_Witness ==
    /\ pc = "found"
    /\ Len(exclude_patterns) = 2
    /\ only_patterns # <<>>
    /\ Returned # {}
    /\ \E d \in Range(find_git_repo_roots(fs, max_depth, only_patterns, <<>>)) :
          d \notin Returned

RECURSIVE StrictlyAscending(_)
StrictlyAscending(list) ==
    Len(list) <= 1 \/ (PartsLess(list[1], list[2]) /\ StrictlyAscending(Tail(list)))

\* C6: discovery is deterministic: whatever order the file system lists
\* directory entries in and whatever order the set of found roots is listed
\* in, the returned list is the same list, strictly ascending by path.
C6_Deterministic ==
    pc = "found" =>
        /\ repo_roots = find_git_repo_roots(fs, max_depth, only_patterns, exclude_patterns)
        /\ StrictlyAscending(repo_roots)

C6_Witness ==
    /\ pc = "found"
    /\ Len(repo_roots) >= 2
    /\ fs.links # {}

-----------------------------------------------------------------------------
(* File Collector claims, checked under SpecCollect *)

Collecting == c_pc \in {"filter", "returned"}

\* The candidates the second loop has been through so far.
Seen == IF c_pc = "returned" THEN Len(all_git_files) ELSE c_next

\* Every pattern collect can be given or has built in.
AllPatterns ==
    GLOB_INCLUDE \cup EXCLUDE_FILE_PATTERNS
    \cup UNION {Range(a.only) \cup Range(a.exclude) \cup Range(a.allow) : a \in CollectArgs}

\* For each DisplayPath of the model, the patterns it matches.
MatchedBy == [d \in Files |-> {p \in AllPatterns : matches_path(d, {p})}]

\* The DisplayPath d matches at least one pattern of the set P.
MatchesSome(d, P) == \E p \in MatchedBy[d] : p \in P

\* (built-in exclude patterns minus allow patterns) union user exclude patterns
ActiveExclude == (EXCLUDE_FILE_PATTERNS \ Range(c_args.allow)) \cup Range(c_args.exclude)

\* The only patterns if any are given, otherwise the built-in include list.
IncludeSet == IF c_args.only # <<>> THEN Range(c_args.only) ELSE GLOB_INCLUDE

\* Candidate k passes every pattern and scope filter.
PassesEveryFilter(k) ==
    LET p_abs == all_git_files[k][1]
        d == all_git_files[k][2]
    IN  /\ c_disk[p_abs].is_file
        /\ \A i \in 1..Len(d) : d[i] \notin GLOB_EXCLUDE_DIRS
        /\ ~MatchesSome(d, ActiveExclude)
        /\ (c_args.paths # <<>> =>
               \E i \in 1..Len(c_args.paths) : StartsWith(p_abs, c_args.paths[i]))
        /\ MatchesSome(d, IncludeSet)

\* TRUE when candidate k passes every filter and the size gate.
Keepable(k) ==
    /\ PassesEveryFilter(k)
    /\ c_disk[all_git_files[k][1]].st_size <= c_args.size_kb * 1024

\* The keepable candidates among those seen.
KeepableSeen == {i \in 1..Seen : Keepable(i)}

\* The first candidate of K with DisplayPath d.
FirstSeen(d, K) ==
    CHOOSE k \in K :
        /\ all_git_files[k][2] = d
        /\ \A j \in K : all_git_files[j][2] = d => k <= j

DistinctKeys(list) ==
    \A i, j \in 1..Len(list) : i # j => list[i][1] # list[j][1]

\* C9: the kept list holds each DisplayPath at most once.  When several
\* candidates, of one RepoRoot or of several, have the same DisplayPath, the
\* entry kept is that of the first one seen in RepoRoot order; a later one
\* leaves the kept entries as they were.
C9_UniqueFirstSeen ==
    Collecting =>
        \A K \in {KeepableSeen} :
            /\ DistinctKeys(kept_files)
            /\ Keys(kept_files) = {all_git_files[k][2] : k \in K}
            /\ \A i \in 1..Len(kept_files) :
                   /\ kept_files[i][2] = all_git_files[FirstSeen(kept_files[i][1], K)][1]
                   /\ \A j \in 1..(i - 1) :
                          FirstSeen(kept_files[j][1], K) < FirstSeen(kept_files[i][1], K)
            /\ c_pc = "returned" =>
                   /\ DistinctKeys(c_result.kept)
                   /\ Range(c_result.kept) = Range(kept_files)
                   /\ Len(c_result.kept) = Len(kept_files)

\* collect has returned after two RepoRoots each yielded a keepable candidate
\* with the same DisplayPath.
C9_Witness ==
    /\ c_pc = "returned"
    /\ Len(c_args.repo_roots) = 2
    /\ \E i, j \in 1..Len(all_git_files) :
           /\ i < j
           /\ all_git_files[i][2] = all_git_files[j][2]
           /\ Keepable(i)
           /\ Keepable(j)
           /\ \E n \in 1..Len(c_result.kept) : c_result.kept[n][1] = all_git_files[i][2]

\* C10 as stated: consecutive entries of the kept list ascend strictly by the
\* as_posix() string of their DisplayPath, under plain string comparison.
C10_AsStated ==
    c_pc = "returned" =>
        \A i \in 1..(Len(c_result.kept) - 1) :
            StrLess(as_posix(c_result.kept[i][1]), as_posix(c_result.kept[i + 1][1]))

\* C10: consecutive entries of the kept list ascend strictly by DisplayPath
\* compared as Paths, one component after another.
C10_ComponentOrder ==
    c_pc = "returned" =>
        \A i \in 1..(Len(c_result.kept) - 1) :
            PartsLess(c_result.kept[i][1], c_result.kept[i + 1][1])

\* collect has returned a/b and a.b/x, which the two comparisons order
\* differently.
C10_Witness ==
    /\ c_pc = "returned"
    /\ \E i, j \in 1..Len(c_result.kept) :
           /\ c_result.kept[i][1] = FileAB
           /\ c_result.kept[j][1] = FileABX

\* C11: the kept set of collect is exactly the set of candidates of the lister
\* that are regular files, have no component with a built-in excluded
\* directory name, match no pattern of the active exclude set, lie under a
\* scoped path when any is given, match the include set and are within the
\* size ceiling; a candidate matching both the active exclude set and the
\* include set is never kept.
C11_KeptExactly ==
    c_pc = "returned" =>
        /\ Range(c_result.kept) =
               {<<all_git_files[k][2], all_git_files[k][1]>> :
                    k \in {i \in 1..Len(all_git_files) : Keepable(i)}}
        /\ \A n \in 1..Len(c_result.kept) :
               ~(MatchesSome(c_result.kept[n][1], ActiveExclude)
                    /\ MatchesSome(c_result.kept[n][1], IncludeSet))

\* collect has returned a non-empty kept list after a candidate that matches
\* both the active exclude set and the include set, and was not kept.
C11_Witness ==
    /\ c_pc = "returned"
    /\ c_result.kept # <<>>
    /\ \E k \in 1..Len(all_git_files) :
           /\ MatchesSome(all_git_files[k][2], ActiveExclude)
           /\ MatchesSome(all_git_files[k][2], IncludeSet)
           /\ all_git_files[k][2] \notin Keys(c_result.kept)

\* C12: the active exclude set is (built-in exclude patterns minus allow
\* patterns) union user exclude patterns, allow applied first: every user
\* exclude pattern is in it, also one that is in the allow list too; an allow
\* pattern that is no user exclude is not in it; and no kept file matches a
\* user exclude pattern.
C12_AllowBeforeExclude ==
    Collecting =>
        \A A \in {active_exclude_patterns(c_args.allow, c_args.exclude)} :
            /\ A = (EXCLUDE_FILE_PATTERNS \ Range(c_args.allow)) \cup Range(c_args.exclude)
            /\ Range(c_args.exclude) \subseteq A
            /\ \A p \in Range(c_args.allow) : p \in A <=> p \in Range(c_args.exclude)
            /\ \A i \in 1..Len(kept_files) :
                   ~MatchesSome(kept_files[i][1], Range(c_args.exclude))

\* collect has returned, given a pattern that is built in, allowed and
\* excluded at once, after a candidate that matches it and passes every other
\* filter, and was not kept.
C12_Witness ==
    /\ c_pc = "returned"
    /\ \E p \in Range(c_args.allow) \cap Range(c_args.exclude) \cap EXCLUDE_FILE_PATTERNS :
           \E k \in 1..Len(all_git_files) :
               /\ MatchedBy[all_git_files[k][2]] \cap ActiveExclude = {p}
               /\ MatchesSome(all_git_files[k][2], IncludeSet)
               /\ c_disk[all_git_files[k][1]].is_file
               /\ all_git_files[k][2] \notin Keys(c_result.kept)

\* The candidates seen so far that passed every pattern and scope filter.
PassedSeen == {k \in 1..Seen : PassesEveryFilter(k)}

SizeOf(k) == c_disk[all_git_files[k][1]].st_size

\* C13: a candidate that passed every pattern and scope filter is in the kept
\* set iff its byte size is at most ceiling * 1024; otherwise it is recorded in
\* the skipped-large list with its byte size divided by 1024, rounded down.
\* Nothing else is recorded there.
C13_SizeGate ==
    Collecting =>
        \A P \in {PassedSeen} :
            /\ \A k \in P :
                   /\ all_git_files[k][2] \in Keys(kept_files)
                          <=> SizeOf(k) <= c_args.size_kb * 1024
                   /\ SizeOf(k) > c_args.size_kb * 1024 =>
                          <<all_git_files[k][2], SizeOf(k) \div 1024>> \in Range(skipped_large)
            /\ Len(skipped_large) =
                   Cardinality({k \in P : SizeOf(k) > c_args.size_kb * 1024})
            /\ \A i \in 1..Len(skipped_large) :
                   \E k \in P :
                       /\ SizeOf(k) > c_args.size_kb * 1024
                       /\ skipped_large[i] = <<all_git_files[k][2], SizeOf(k) \div 1024>>

\* collect has returned a kept file of exactly ceiling * 1024 bytes and a
\* skipped file of ceiling * 1024 + 1 bytes, recorded with the ceiling as size.
C13_Witness ==
    /\ c_pc = "returned"
    /\ \E n \in 1..Len(c_result.kept) :
           c_disk[c_result.kept[n][2]].st_size = c_args.size_kb * 1024
    /\ \E n \in 1..Len(c_result.skipped) :
           /\ c_disk[Abs(c_result.skipped[n][1])].st_size = c_args.size_kb * 1024 + 1
           /\ c_result.skipped[n][2] = c_args.size_kb

\* C15: the result of collect does not depend on the order of the RepoRoot
\* list: for every permutation of the same RepoRoots, the lister and all other
\* arguments unchanged, collect returns the same kept list and the same
\* skipped-large list.
C15_RepoRootOrder ==
    c_pc = "returned" =>
        \A roots \in Perms(Range(c_args.repo_roots)) :
            collect([c_args EXCEPT !.repo_roots = roots], c_lister, c_disk) = c_result

\* collect has returned for two RepoRoots that both yielded a kept file, the
\* insertion order of the kept entries differing from their sorted order.
C15_Witness ==
    /\ c_pc = "returned"
    /\ Len(c_args.repo_roots) = 2
    /\ Len(kept_files) >= 2
    /\ kept_files # c_result.kept
    /\ \E i, j \in 1..Len(all_git_files) :
           /\ IsUnder(all_git_files[i][1], RepoA) /\ Keepable(i)
           /\ ~IsUnder(all_git_files[j][1], RepoA) /\ Keepable(j)

-----------------------------------------------------------------------------
(* Claims on the run, checked under SpecRun *)

\* The blocks of the artifact of one kind.
Blocks(kind) == {i \in 1..Len(artifact) : artifact[i].kind = kind}

KeptPaths == {r_files.kept[i][1] : i \in 1..Len(r_files.kept)}
SkippedPaths == {r_files.skipped[i][1] : i \in 1..Len(r_files.skipped)}

\* C14: size gating never reads content.  No DisplayPath is both in the kept
\* list and in the skipped-large list of collect; in a CONTENTS run the
\* renderer writes banners and reads content for kept files only, so a file
\* over the ceiling has no banner and no body, and once the renderer has
\* finished it is in the footer with its size in whole KB.
C14_SkippedNeverRead ==
    /\ KeptPaths \cap SkippedPaths = {}
    /\ \A i \in Blocks("FILE") \cup Blocks("CONTENT") :
           /\ artifact[i].path \in KeptPaths
           /\ artifact[i].path \notin SkippedPaths
    /\ \A p \in {r.path : r \in r_reads} :
           /\ r_disk[p].st_size <= DEFAULT_SIZE_KB * 1024
           /\ \E n \in 1..Len(r_files.kept) : r_files.kept[n][2] = p
    /\ (r_cmd.zoom = "contents" /\ r_pc = "publish") =>
           \A n \in 1..Len(r_files.skipped) :
               \E i \in Blocks("SKIPPED_FILE") :
                   /\ artifact[i].path = r_files.skipped[n][1]
                   /\ artifact[i].n = r_disk[Abs(r_files.skipped[n][1])].st_size \div 1024

\* A CONTENTS run has rendered a kept file while another file was over the
\* ceiling, and has finished rendering.
C14_Witness ==
    /\ r_cmd.zoom = "contents"
    /\ r_pc = "publish"
    /\ r_files.skipped # <<>>
    /\ r_reads # {}
    /\ Blocks("SKIPPED_FILE") # {}

Exited == r_pc = "exited"

\* The run went through the renderer to its end: the artifact has its end
\* marker, and its footer when files were skipped in a CONTENTS run.
ArtifactWritten ==
    /\ Blocks("START") = {1}
    /\ Blocks("END") # {}
    /\ (r_cmd.zoom = "contents" /\ r_files.skipped # <<>>) => Blocks("SKIPPED") # {}

\* What the run has to end with status 1 for: an empty discovery, an empty
\* collection, a failed clipboard copy.
FailureSeen ==
    \/ "discover" \in Range(r_log) /\ r_roots = <<>>
    \/ "collect" \in Range(r_log) /\ r_files.kept = <<>>
    \/ r_clip = "failed"

\* C16 as stated: the exit status is 0 when the artifact was written and any
\* requested clipboard copy succeeded, 1 when discovery found nothing, no file
\* was kept, the artifact could not be written or the requested copy failed,
\* 130 on interrupt, and nothing else.
C16_AsStated ==
    Exited =>
        /\ r_status \in {0, 1, 130}
        /\ r_status = 0 => (ArtifactWritten /\ (r_cmd.clipboard => r_clip = "copied"))
        /\ FailureSeen => r_status = 1

\* C16: as stated, and besides: the argument parser ends the run with status 2
\* when it rejects the command line, and with status 0, nothing written, after
\* --help.
C16_ExitStatus ==
    Exited =>
        /\ r_status \in {0, 1, 2, 130}
        /\ r_status = 2 <=> r_parse = "usage_error"
        /\ r_parse = "help" => (r_status = 0 /\ artifact = <<>>)
        /\ (r_status = 0 /\ r_parse # "help") =>
               (ArtifactWritten /\ (r_cmd.clipboard => r_clip = "copied"))
        /\ FailureSeen => r_status = 1

\* A run has ended with status 0 after writing the artifact, skipped-files
\* footer included, and copying it to the clipboard.
C16_Witness ==
    /\ Exited
    /\ r_status = 0
    /\ r_clip = "copied"
    /\ Blocks("SKIPPED") # {}

\* C17 as stated: a clipboard failure is advisory.  When the copy that was
\* asked for fails after the artifact has been written, the failure is
\* reported (r_clip records it), the artifact stays as written, and the run
\* still ends with status 0.
C17_AsStated ==
    (Exited /\ r_clip = "failed") => (ArtifactWritten /\ r_status = 0)

\* C17: a clipboard failure leaves the artifact as the renderer wrote it and
\* is reported, but it is not advisory: the copy is tried only when asked for
\* and after the renderer has finished, and when it fails the run ends with
\* status 1.
C17_ClipboardFailureExits1 ==
    /\ r_clip # "none" => (r_cmd.clipboard /\ Exited /\ ArtifactWritten)
    /\ r_clip = "failed" => r_status = 1
    /\ r_clip = "copied" => r_status = 0

\* A CONTENTS run has written its artifact, footer included, and ended after
\* a clipboard copy that failed.
C17_Witness ==
    /\ Exited
    /\ r_clip = "failed"
    /\ r_cmd.zoom = "contents"
    /\ artifact[Len(artifact)].kind = "SKIPPED_FILE"

\* The renderer has returned to main: the artifact is as the run leaves it.
RendererFinished ==
    \/ r_pc = "publish"
    \/ Exited /\ r_parse = "parsed" /\ (r_status = 0 \/ r_clip = "failed")

FooterKinds == {"SKIPPED", "SKIPPED_FILE"}

\* C18 as stated: the artifact begins with the preamble and its last block is
\* the end marker, written once, nothing after it, also when the CONTENTS run
\* has skipped-large files.
C18_AsStated ==
    RendererFinished =>
        /\ artifact[1].kind = "START"
        /\ Cardinality(Blocks("END")) = 1
        /\ artifact[Len(artifact)].kind = "END"

\* C18: the artifact begins with the preamble and holds the end marker exactly
\* once; nothing but the skipped-files footer is written after the end marker,
\* and the footer is written, after it, exactly when the CONTENTS run has
\* skipped-large files.  At zoom REPOS and FILES the end marker is last.
C18_EndMarkerThenFooter ==
    /\ artifact # <<>> => (Blocks("START") = {1} /\ Cardinality(Blocks("END")) <= 1)
    /\ RendererFinished =>
           \E e \in 1..Len(artifact) :
               /\ Blocks("END") = {e}
               /\ \A i \in 1..(e - 1) : artifact[i].kind \notin FooterKinds
               /\ \A i \in (e + 1)..Len(artifact) : artifact[i].kind \in FooterKinds
               /\ e < Len(artifact) <=>
                      (r_cmd.zoom = "contents" /\ r_files.skipped # <<>>)
               /\ e < Len(artifact) =>
                      /\ artifact[e + 1].kind = "SKIPPED"
                      /\ Len(artifact) = e + 1 + Len(r_files.skipped)

\* A CONTENTS run has finished rendering an artifact with a file banner, the
\* end marker and the footer for a skipped-large file after it.
C18_Witness ==
    /\ RendererFinished
    /\ r_cmd.zoom = "contents"
    /\ Blocks("FILE") # {}
    /\ artifact[Len(artifact)].kind = "SKIPPED_FILE"
    /\ \E e \in Blocks("END") : e < Len(artifact)

\* The place of a stage in the order of the run.
StageRank(stage) ==
    CASE stage = "discover" -> 1
      [] stage = "collect" -> 2
      [] stage = "lister" -> 3
      [] stage = "render" -> 4
      [] stage = "clipboard" -> 5

Logged(stage) == {i \in 1..Len(r_log) : r_log[i] = stage}

\* C19: the stages of a run happen in the order discovery, collection (with
\* its tracked-file lister), rendering, clipboard copy, each at most once.  At
\* zoom REPOS neither the collector nor the lister runs; the collector starts
\* only after a non-empty discovery; the renderer starts only after a non-empty
\* discovery and, at zoom FILES and CONTENTS, a non-empty collection; the
\* clipboard copy happens only when asked for and after the renderer has
\* finished; after an empty discovery or collection no renderer and no copy
\* runs and no artifact is written.
C19_StageOrder ==
    /\ \A i, j \in 1..Len(r_log) : i < j => StageRank(r_log[i]) <= StageRank(r_log[j])
    /\ \A stage \in {"discover", "collect", "render", "clipboard"} :
           Cardinality(Logged(stage)) <= 1
    /\ r_cmd.zoom = "repos" => (Logged("collect") = {} /\ Logged("lister") = {})
    /\ Logged("lister") # {} => Logged("collect") # {}
    /\ Logged("collect") # {} => (Logged("discover") # {} /\ r_roots # <<>>)
    /\ Logged("render") # {} =>
           /\ Logged("discover") # {} /\ r_roots # <<>>
           /\ r_cmd.zoom # "repos" => (Logged("collect") # {} /\ r_files.kept # <<>>)
    /\ artifact # <<>> => Logged("render") # {}
    /\ Logged("clipboard") # {} =>
           /\ r_cmd.clipboard
           /\ Logged("render") # {}
           /\ ArtifactWritten
    /\ ( \/ Logged("discover") # {} /\ r_roots = <<>>
         \/ Logged("collect") # {} /\ r_files.kept = <<>> ) =>
           /\ Logged("render") = {}
           /\ Logged("clipboard") = {}
           /\ artifact = <<>>

\* A CONTENTS run has gone through all four stages, the collector asking the
\* lister for two repositories.
C19_Witness ==
    /\ Exited
    /\ r_cmd.zoom = "contents"
    /\ r_log = <<"discover", "collect", "lister", "lister", "render", "clipboard">>

\* How the read of the kept file absolute_p went, when the renderer has read it.
ReadStateOf(absolute_p) == {r.state : r \in {q \in r_reads : q.path = absolute_p}}

\* The per-file failures: the file cannot be read, it has disappeared, or it
\* is a notebook to be stripped and its content does not parse.
PerFileFailure(absolute_p, state) ==
    \/ state \in {"unreadable", "gone"}
    \/ state = "malformed" /\ suffix(absolute_p) = IPYNB /\ r_cmd.truncate_ipynb

\* The files of files_to_dump whose banner and content are in the artifact:
\* the first r_next of them, a FILE block and then a CONTENT block each.
FilesWritten ==
    /\ Cardinality(Blocks("FILE")) = r_next
    /\ \A n \in 1..r_next :
           /\ artifact[2 * n].kind = "FILE"
           /\ artifact[2 * n].path = r_files.kept[n][1]
           /\ artifact[2 * n + 1].kind = "CONTENT"
           /\ artifact[2 * n + 1].path = r_files.kept[n][1]

\* C20 as stated: a per-file failure never aborts the CONTENTS renderer.  A
\* kept file that cannot be read, whose notebook content is malformed, or that
\* has disappeared, gets its banner and an inline error marker as its content;
\* every remaining file and the end marker are written after it.
C20_AsStated ==
    r_cmd.zoom = "contents" =>
        /\ r_pc \in {"body", "footer", "publish"} => FilesWritten
        /\ \A n \in 1..r_next :
               (\E state \in ReadStateOf(r_files.kept[n][2]) :
                    PerFileFailure(r_files.kept[n][2], state))
                   => artifact[2 * n + 1].text = "error"
        /\ RendererFinished => (r_next = Len(r_files.kept) /\ Blocks("END") # {})

\* C20: a per-file failure never aborts the CONTENTS renderer.  A kept file
\* that cannot be read or has disappeared gets its banner and the inline error
\* marker as its content; a notebook whose content does not parse gets its
\* banner and its raw text, without a marker; every remaining file and the end
\* marker are written after it.
C20_PerFileFailures ==
    r_cmd.zoom = "contents" =>
        /\ r_pc \in {"body", "footer", "publish"} => FilesWritten
        /\ \A n \in 1..r_next :
               /\ Cardinality(ReadStateOf(r_files.kept[n][2])) = 1
               /\ \A state \in ReadStateOf(r_files.kept[n][2]) :
                      LET stripped == suffix(r_files.kept[n][2]) = IPYNB /\ r_cmd.truncate_ipynb
                      IN  artifact[2 * n + 1].text =
                              CASE state \in {"unreadable", "gone"} -> "error"
                                [] state = "malformed" /\ stripped -> "raw"
                                [] state = "ok" /\ stripped -> "stripped"
                                [] OTHER -> "text"
        /\ RendererFinished => (r_next = Len(r_files.kept) /\ Blocks("END") # {})

\* A CONTENTS run has finished rendering after reading a notebook that did not
\* parse and then a file that had disappeared.
C20_Witness ==
    /\ RendererFinished
    /\ r_cmd.zoom = "contents"
    /\ r_cmd.truncate_ipynb
    /\ [path |-> Abs(FileIpynb), state |-> "malformed"] \in r_reads
    /\ [path |-> Abs(FileGo), state |-> "gone"] \in r_reads
    /\ Blocks("END") # {}

-----------------------------------------------------------------------------
(* Claims on the helpers of the renderer, checked under SpecHelper *)

\* The file holds a notebook that parses: an object whose "cells" is a list.
IsNotebook(text) ==
    /\ loads(text).ok
    /\ loads(text).val.t = "object"
    /\ DictGet(loads(text).val.v, "cells", JNull).t = "array"

CellsOf(text) == DictGet(loads(text).val.v, "cells", JNull).v

\* The members of a dict but for the given keys, in order.
Without(items, keys) == SelectSeq(items, LAMBDA kv : kv[1] \notin keys)

\* C21: for every notebook that parses, the content strip_ipynb renders has, in
\* every cell, no outputs, no cell-level metadata and a null execution count;
\* the source of every cell, every other field of a cell, the order of the
\* cells and all notebook-level fields are unchanged; stripping a stripped
\* notebook changes nothing.
C21_StripIpynb ==
    /\ (h_fn = "strip_ipynb" /\ IsNotebook(h_in)) =>
           /\ h_out.kind = "stripped"
           /\ IsNotebook(h_out.text)
           /\ Without(loads(h_out.text).val.v, {"cells"})
                  = Without(loads(h_in).val.v, {"cells"})
           /\ Len(CellsOf(h_out.text)) = Len(CellsOf(h_in))
           /\ \A i \in 1..Len(CellsOf(h_in)) :
                  LET before == CellsOf(h_in)[i]
                      after == CellsOf(h_out.text)[i]
                  IN  IF before.t # "object" THEN after = before
                      ELSE /\ after.t = "object"
                           /\ "outputs" \notin DictKeys(after.v)
                           /\ "metadata" \notin DictKeys(after.v)
                           /\ DictGet(after.v, "execution_count", JStr("none")) = JNull
                           /\ DictGet(after.v, "source", JNull) = DictGet(before.v, "source", JNull)
                           /\ Without(after.v, {"execution_count"})
                                  = Without(before.v, {"outputs", "metadata", "execution_count"})
    /\ h_fn = "strip_ipynb_again" => (h_out.kind = "stripped" /\ h_out.text = h_in)

\* strip_ipynb has stripped a notebook of two cells, one with outputs, metadata
\* and an execution count, the other with none of them.
C21_Witness ==
    /\ h_fn = "strip_ipynb"
    /\ IsNotebook(h_in)
    /\ h_out.kind = "stripped"
    /\ Len(CellsOf(h_in)) = 2
    /\ \A i \in 1..2 : CellsOf(h_in)[i].t = "object"
    /\ DictKeys(CellsOf(h_in)[1].v) = {"source", "outputs", "metadata", "execution_count"}
    /\ DictGet(CellsOf(h_in)[1].v, "execution_count", JNull) = JNum(1)
    /\ DictKeys(CellsOf(h_in)[2].v) = {"source"}


RECURSIVE TrailingNewlines(_)
TrailingNewlines(s) ==
    IF s = <<>> \/ s[Len(s)] # "\n" THEN 0
    ELSE 1 + TrailingNewlines(SubSeq(s, 1, Len(s) - 1))

\* C22 as stated: the content written for a file, the empty file included,
\* ends with exactly one trailing newline.
C22_AsStated ==
    h_fn = "normalize_content" => TrailingNewlines(h_out) = 1

\* C22: the content written for a file that is not empty ends with exactly one
\* newline, which follows the content without its trailing whitespace (a
\* content of whitespace only is written as one newline); the content of an
\* empty file is written empty.
C22_OneTrailingNewline ==
    h_fn = "normalize_content" =>
        IF h_in = <<>> THEN h_out = <<>>
        ELSE /\ TrailingNewlines(h_out) = 1
             /\ LET body == SubSeq(h_out, 1, Len(h_out) - 1)
                IN  /\ Len(body) <= Len(h_in)
                    /\ body = SubSeq(h_in, 1, Len(body))
                    /\ body # <<>> => body[Len(body)] \notin WHITESPACE
                    /\ \A i \in (Len(body) + 1)..Len(h_in) : h_in[i] \in WHITESPACE

\* A content that ends with a blank line was written with one newline.
C22_Witness ==
    /\ h_fn = "normalize_content"
    /\ h_in = <<"a", "\n", "\n">>
    /\ h_out = <<"a", "\n">>


-----------------------------------------------------------------------------
(* Claims about the walk of the repository discoverer (Spec) *)

MarkedLines(lines) == {i \in 1..Len(lines) : lines[i].marker}

\* C24: for every list of N RepoRoots, _build_repo_tree returns count N and
\* exactly N tree lines carry the repository marker, and dump_repos writes
\* "Found: N repository" when N is 1 and "Found: N repositories" otherwise.
C24_AsStated ==
    h_fn = "dump_repos" =>
        /\ ~h_out.raised
        /\ h_out.count = Len(h_in)
        /\ Cardinality(MarkedLines(h_out.lines)) = Len(h_in)
        /\ h_out.noun = IF Len(h_in) = 1 THEN "repository" ELSE "repositories"


\* The directory and the depth of the i-th queue entry.
QDir(i) == queue[i][1]
QDepth(i) == queue[i][2]

\* The resolved subdirectories of a directory.
ResolvedChildren(d) == {resolve(fs, c) : c \in {k \in iterdir(fs, d) : is_dir(fs, k)}}

\* The walk skipped (continue) the i-th queue entry at the repository filters.
SkippedEntry(i) ==
    /\ HasGit(fs, QDir(i))
    /\ repo_skipped(IF IsUnder(QDir(i), start_path) THEN Below(QDir(i), start_path) ELSE <<>>,
                    only_set_of(only_patterns), exclude_set_of(exclude_patterns))

\* A child the walk leaves out for a reason other than depth.
LeftOutForOtherReason(c) ==
    \/ ~is_dir(fs, c)
    \/ Name(c) \in GLOB_EXCLUDE_DIRS
    \/ should_exclude_subtree(IF IsUnder(c, start_path) THEN Below(c, start_path) ELSE <<Name(c)>>,
                              exclude_set_of(exclude_patterns))

\* C25: the queue starts at (scan root, 0); every later entry is a child of an
\* earlier entry, one level deeper; depths never decrease along the queue; no
\* entry is deeper than maxDepth (with maxDepth 0 the scan root is the only
\* entry); every RepoRoot found is a dequeued entry; and when a walk with the
\* infinite sentinel has returned, every child of an entry the walk went on
\* from is visited unless it is left out for a reason other than depth.
C25_DepthBound ==
    pc \in {"walk", "found"} =>
        /\ Len(queue) >= 1 /\ queue[1] = <<start_path, 0>>
        /\ \A i \in 2..Len(queue) :
               \E j \in 1..(i - 1) : /\ QDepth(i) = QDepth(j) + 1
                                     /\ QDir(i) \in ResolvedChildren(QDir(j))
        /\ \A i \in 1..(Len(queue) - 1) : QDepth(i) <= QDepth(i + 1)
        /\ max_depth.finite => \A i \in 1..Len(queue) : QDepth(i) <= max_depth.value
        /\ max_depth = Number(0) => Len(queue) = 1
        /\ repo_roots_found \subseteq {QDir(i) : i \in 1..head}
        /\ (pc = "found" /\ ~max_depth.finite) =>
               \A i \in 1..head : ~SkippedEntry(i) =>
                   \A c \in iterdir(fs, QDir(i)) :
                       LeftOutForOtherReason(c) \/ resolve(fs, c) \in visited_dirs

\* A walk of maxDepth 1 has returned: the directory a was examined at depth 1
\* and its subdirectory was not enqueued.
C25_Witness ==
    /\ pc = "found"
    /\ max_depth = Number(1)
    /\ exclude_patterns = <<>>
    /\ Len(queue) = 2
    /\ queue[2] = <<Abs(<< <<"a">> >>), 1>>
    /\ << <<"a">>, <<"a">> >> \in fs.dirs


\* Every directory of the queue is in the visited set and is in the queue once.
EnqueuedOnce ==
    pc \in {"walk", "found"} =>
        /\ \A i \in 1..Len(queue) : QDir(i) \in visited_dirs
        /\ \A i, j \in 1..Len(queue) : QDir(i) = QDir(j) => i = j
        /\ Len(queue) = Cardinality(visited_dirs)

\* C26: the walk terminates on every finite directory graph, symbolic-link
\* cycles and an unbounded maxDepth included: every resolved directory is in
\* the visited set when it is enqueued and is enqueued at most once, and the
\* loop reaches the end of the queue and returns.
C26_WalkTerminates == []EnqueuedOnce /\ <>(pc = "found" /\ head = Len(queue))

\* An unbounded walk has returned on a tree where a link leads back to the
\* scan root and another directory was examined.
C26_Witness ==
    /\ pc = "found"
    /\ ~max_depth.finite
    /\ \E l \in fs.links : l.to = <<>>
    /\ Len(queue) >= 2
    /\ head = Len(queue)


-----------------------------------------------------------------------------
(* Pruning against path matching (SpecMatch) *)

\* The paths beneath a directory, to two more components.
Beneath(d) == {d \o rest : rest \in PathsOver(MatchNames, 2) \ {<<>>}}

\* C27: if should_exclude_subtree(D, E) is true then matches_path(P, E) is
\* true for D itself and for every path P beneath D.
C27_AsStated ==
    (m_fn = "should_exclude_subtree" /\ m_out) =>
        /\ matches_path(m_path, m_patterns)
        /\ \A P \in Beneath(m_path) : matches_path(P, m_patterns)


-----------------------------------------------------------------------------
(* The skipped-large list (SpecCollect) *)

\* C28: the skipped-large list collect returns holds each DisplayPath at most
\* once, so the count of the footer, the length of the list, is the number of
\* distinct skipped files.
C28_AsStated ==
    c_pc = "returned" =>
        /\ \A i, j \in 1..Len(c_result.skipped) :
               c_result.skipped[i][1] = c_result.skipped[j][1] => i = j
        /\ Len(c_result.skipped)
               = Cardinality({c_result.skipped[i][1] : i \in 1..Len(c_result.skipped)})


-----------------------------------------------------------------------------
(* The only list at both tiers (SpecRun) *)

\* The DisplayPaths the FILES or CONTENTS artifact names.
Shown ==
    {artifact[i].path : i \in {k \in 1..Len(artifact) : artifact[k].kind \in {"PATH", "FILE"}}}

\* The DisplayPath of a file a repository tracks.
DisplayOf(root, listed) ==
    IF IsUnder(root \o listed, start_path) THEN Below(root \o listed, start_path)
    ELSE root \o listed

\* The repositories that track the file shown as d.
ReposOf(d) ==
    {root \in RunRoots : /\ HasGit(r_fs, root)
                         /\ \E i \in 1..Len(r_lister[root]) :
                                DisplayOf(root, r_lister[root][i]) = d}

\* The path of a repository the only patterns are matched against.
RepoPath(root) == IF IsUnder(root, start_path) THEN Below(root, start_path) ELSE root

\* C29: in a run with an only list, a tracked file of a repository other than
\* the scan root is in the FILES or CONTENTS artifact only if the path of the
\* repository matches an only pattern and the DisplayPath of the file matches
\* an only pattern; a file of the repository at the scan root needs the match
\* of the file alone.
C29_AsStated ==
    r_cmd.only # <<>> =>
        \A d \in Shown :
            /\ matches_path(d, Range(r_cmd.only))
            /\ \A root \in ReposOf(d) \ {start_path} :
                   matches_path(RepoPath(root), Range(r_cmd.only))


-----------------------------------------------------------------------------
(* Claims about the clipboard helper (SpecClipboard) *)

\* The order of the strategies for an OS family and a session type: the
\* Windows tools on Windows and WSL, pbcopy on macOS, wl-copy in a Wayland
\* session, xsel then xclip on Linux outside Wayland, the terminal escape last
\* when it is enabled.
StrategyOrder(env) ==
    (IF env.os = "Windows" \/ (env.os = "Linux" /\ env.wsl)
     THEN <<"clip.exe", "powershell.exe">> ELSE <<>>)
    \o (IF env.os = "Darwin" THEN <<"pbcopy">> ELSE <<>>)
    \o (IF env.wayland THEN <<"wl-copy">> ELSE <<>>)
    \o (IF env.os = "Linux" /\ ~env.wayland THEN <<"xsel", "xclip">> ELSE <<>>)
    \o (IF env.enable_osc52 THEN <<"osc52">> ELSE <<>>)

IsStrategy(e) == e.strategy # "fix_display_env"
StrategiesTried == LET t == SelectSeq(k_ran, IsStrategy)
                   IN  [i \in 1..Len(t) |-> t[i].strategy]
Succeeded(e) == e.outcome = "ok"

C30_Order ==
    /\ Len(StrategiesTried) <= Len(StrategyOrder(k_env))
    /\ StrategiesTried = SubSeq(StrategyOrder(k_env), 1, Len(StrategiesTried))

C30_State ==
    k_pc \notin {"off", "idle"} =>
        /\ C30_Order
        /\ \A i \in 1..(Len(k_ran) - 1) : ~Succeeded(k_ran[i])
        /\ (k_ran # <<>> /\ Succeeded(k_ran[Len(k_ran)])) =>
               (k_result = "True" /\ k_pc = "done")
        /\ k_result = "True" => (k_ran # <<>> /\ Succeeded(k_ran[Len(k_ran)]))
        /\ k_result = "False" =>
               /\ StrategiesTried = StrategyOrder(k_env)
               /\ \A i \in 1..Len(k_ran) : ~Succeeded(k_ran[i])
        /\ k_result = "raised" =>
               \A i \in 1..Len(k_ran) :
                   k_ran[i].outcome \in {"timeout", "notfound", "missing"} =>
                       i < Len(k_ran)

\* C30: copy_text_to_clipboard tries its strategies in the order fixed by the
\* OS family and the session type and stops at the first that succeeds: it
\* returns True right after the first success, having run only failed
\* strategies before it and none after it; it returns False only when every
\* applicable strategy, the terminal escape included when enabled, has been
\* tried and has failed; a strategy that timed out or whose tool is missing
\* is a failure the call goes on from, never an exception the call ends with;
\* and nothing runs after the call has returned.
C30_FirstSuccessWins ==
    /\ []C30_State
    /\ [][k_pc = "done" => UNCHANGED <<k_ran, k_result>>]_vars

\* Witness of C30: a call returned True through a strategy that ran after one
\* strategy timed out and the tool of another was missing.
C30_Witness ==
    /\ k_result = "True"
    /\ \E i \in 1..Len(k_ran) : k_ran[i].outcome = "timeout"
    /\ \E i \in 1..Len(k_ran) : k_ran[i].outcome = "missing"
    /\ Succeeded(k_ran[Len(k_ran)])

====
